---------------------------- MODULE Spec2Model ----------------------------
(***************************************************************************)
(* Model of the consejoNL quarterly-report ETL (src/app/etl_central):       *)
(* the period resolver and the budget-balance transform of                 *)
(* assets/transform_utils.py and assets/balance_presupuestario.py, the     *)
(* identity assigner, the load paths of connectors/postgresql.py and of    *)
(* the assets modules, and the single-period / bulk pipelines.             *)
(*                                                                         *)
(* Texts are sequences of one-character strings, so that the regular       *)
(* expressions and the int()/format conversions of the code are computed   *)
(* character by character.                                                 *)
(***************************************************************************)
EXTENDS Integers, Sequences, FiniteSets, TLC

VARIABLES
    header,       \* SpecPeriod: the header cell handed to parse_fecha_header
    truth,        \* SpecPeriod: how the header cell was written (kind, day, month, year)
    pf,           \* SpecPeriod: outcome of parse_fecha_header ("none" before the call)
    grid,         \* SpecTransform: the raw sheet (sequence of rows, columns 1..4)
    planted,      \* SpecTransform: the code rows written into the sheet, in sheet order
    out,          \* SpecTransform: outcome of transform_balance_presupuestario_data
    tbl_exists,   \* destination table exists
    tbl_rows,     \* destination table: identity -> row (committed state)
    last,         \* the last load call: path, batch, table before it, statements, outcome
    issued,       \* pipeline: the values of the random source handed out so far
    runs,         \* pipeline: one entry per finished pipeline() call
    source,       \* pipeline: the stored object of the latest period, unchanged between runs
    bucket,       \* bulk pipeline: the stored objects, by period (year, quarter)
    runlog,       \* run wrappers: the entries of the pipeline_logs table, in order
    caller        \* run wrappers: what the caller of the last wrapper call saw

vars == <<header, truth, pf, grid, planted, out, tbl_exists, tbl_rows, last,
          issued, runs, source, bucket, runlog, caller>>

----------------------------------------------------------------------------
(* Characters and the conversions Python applies to them.                  *)

UpperSeq == <<"A","B","C","D","E","F","G","H","I","J","K","L","M",
              "N","O","P","Q","R","S","T","U","V","W","X","Y","Z">>
LowerSeq == <<"a","b","c","d","e","f","g","h","i","j","k","l","m",
              "n","o","p","q","r","s","t","u","v","w","x","y","z">>
DigitSeq == <<"0","1","2","3","4","5","6","7","8","9">>

InSeq(c, s) == \E i \in 1..Len(s) : s[i] = c
IndexIn(c, s) == CHOOSE i \in 1..Len(s) : s[i] = c

IsDigit(c) == InSeq(c, DigitSeq)
IsUpper(c) == InSeq(c, UpperSeq)
IsLower(c) == InSeq(c, LowerSeq)
\* \w of the re module, on the ASCII characters the model uses
IsWord(c) == IsDigit(c) \/ IsUpper(c) \/ IsLower(c) \/ c = "_"
\* \s of the re module, on the characters the model uses
IsSpace(c) == c \in {" ", "\t", "\n"}

\* str.lower()
LowerChar(c) == IF IsUpper(c) THEN LowerSeq[IndexIn(c, UpperSeq)] ELSE c
Lower(t) == [i \in 1..Len(t) |-> LowerChar(t[i])]
\* str.upper()
UpperChar(c) == IF IsLower(c) THEN UpperSeq[IndexIn(c, LowerSeq)] ELSE c
Upper(t) == [i \in 1..Len(t) |-> UpperChar(t[i])]

DigitVal(c) == IndexIn(c, DigitSeq) - 1

\* int() of a text of decimal digits
RECURSIVE ToInt(_)
ToInt(ds) ==
    IF ds = <<>> THEN 0
    ELSE 10 * ToInt(SubSeq(ds, 1, Len(ds) - 1)) + DigitVal(ds[Len(ds)])

\* f"{n}" for n >= 0
RECURSIVE Dec(_)
Dec(n) == IF n < 10 THEN <<DigitSeq[n + 1]>>
          ELSE Dec(n \div 10) \o <<DigitSeq[(n % 10) + 1]>>

\* f"{n:02d}" for n >= 0
Pad2(n) == IF n < 10 THEN <<"0">> \o Dec(n) ELSE Dec(n)

\* t[i..i+Len(lit)-1] = lit
HasAt(t, i, lit) ==
    /\ i >= 1
    /\ i + Len(lit) - 1 <= Len(t)
    /\ \A k \in 1..Len(lit) : t[i + k - 1] = lit[k]

AllDigits(t, i, n) ==
    /\ i >= 1
    /\ i + n - 1 <= Len(t)
    /\ \A k \in i..(i + n - 1) : IsDigit(t[k])

AllWord(t, i, n) ==
    /\ i >= 1
    /\ i + n - 1 <= Len(t)
    /\ \A k \in i..(i + n - 1) : IsWord(t[k])

None == [kind |-> "None"]

----------------------------------------------------------------------------
(* Cell values of a sheet read with header=None: a text, a number, or the   *)
(* NaN pandas gives for an empty cell.                                     *)

Str(s) == [kind |-> "str", s |-> s]
Num(n) == [kind |-> "num", n |-> n]
NaN == [kind |-> "nan"]

----------------------------------------------------------------------------
(* transform_utils.parse_fecha_header                                      *)

\* month_map, in the order of its values 1..12
month_map == <<
    <<"e","n","e","r","o">>,
    <<"f","e","b","r","e","r","o">>,
    <<"m","a","r","z","o">>,
    <<"a","b","r","i","l">>,
    <<"m","a","y","o">>,
    <<"j","u","n","i","o">>,
    <<"j","u","l","i","o">>,
    <<"a","g","o","s","t","o">>,
    <<"s","e","p","t","i","e","m","b","r","e">>,
    <<"o","c","t","u","b","r","e">>,
    <<"n","o","v","i","e","m","b","r","e">>,
    <<"d","i","c","i","e","m","b","r","e">>
>>

\* month_map.get(word, 0)
MonthMapGet(word) ==
    IF \E m \in 1..Len(month_map) : month_map[m] = word
    THEN CHOOSE m \in 1..Len(month_map) : month_map[m] = word
    ELSE 0

\* One way for r'(\d{1,2}) de (\w+)(?: de)? (\d{4})' to match t from position i:
\* d digits of day, w characters of month word, with or without the optional " de".
FechaMatchAs(t, i, d, w, o) ==
    LET pw == i + d + 4
        py == pw + w + (IF o THEN 3 ELSE 0) + 1
    IN  /\ AllDigits(t, i, d)
        /\ HasAt(t, i + d, <<" ","d","e"," ">>)
        /\ AllWord(t, pw, w)
        /\ (o => HasAt(t, pw + w, <<" ","d","e">>))
        /\ HasAt(t, py - 1, <<" ">>)
        /\ AllDigits(t, py, 4)

\* Length of the run of \w characters of t that starts at position i.
RECURSIVE WordRun(_, _)
WordRun(t, i) == IF i <= Len(t) /\ IsWord(t[i]) THEN 1 + WordRun(t, i + 1) ELSE 0

FechaCands(t, i) ==
    IF ~IsDigit(t[i]) THEN {}
    ELSE UNION { {c \in {d} \X (1..WordRun(t, i + d + 4)) \X BOOLEAN :
                      FechaMatchAs(t, i, c[1], c[2], c[3])} : d \in 1..2 }

\* The backtracking order of the re module: greedy day, greedy word, optional
\* group tried present first.
FechaPrefers(a, b) ==
    \/ a[1] > b[1]
    \/ (a[1] = b[1] /\ a[2] > b[2])
    \/ (a[1] = b[1] /\ a[2] = b[2] /\ (a[3] \/ ~b[3]))

\* The leftmost position from i on where the pattern matches, 0 when none.
RECURSIVE FechaFirst(_, _)
FechaFirst(t, i) ==
    IF i > Len(t) THEN 0
    ELSE IF FechaCands(t, i) # {} THEN i
    ELSE FechaFirst(t, i + 1)

\* re.search: the leftmost position with a match, and the groups of the
\* preferred match there; None when no position matches.
FechaSearch(t) ==
    LET i == FechaFirst(t, 1) IN
    IF i > 0
    THEN LET c == CHOOSE a \in FechaCands(t, i) :
                      \A b \in FechaCands(t, i) : FechaPrefers(a, b)
             pw == i + c[1] + 4
             py == pw + c[2] + (IF c[3] THEN 3 ELSE 0) + 1
         IN  [kind |-> "match",
              g1 |-> SubSeq(t, i, i + c[1] - 1),
              g2 |-> SubSeq(t, pw, pw + c[2] - 1),
              g3 |-> SubSeq(t, py, py + 3)]
    ELSE None

unknown == <<"u","n","k","n","o","w","n">>

\* Mutant: the quarter taken as month // 3 + 1.
QuarterOfMonth_NoShift(month) == month \div 3 + 1

\* The quarter computed at line 22 from the month looked up at line 19.
QuarterOfMonth(month) == (month - 1) \div 3 + 1

\* parse_fecha_header(text): text.lower() raises AttributeError on a cell that
\* is no str; otherwise (full_date, year_quarter), with the locals month and quarter.
parse_fecha_header(text) ==
    IF text.kind # "str"
    THEN [raised |-> TRUE, exc |-> "AttributeError"]
    ELSE LET match == FechaSearch(Lower(text.s)) IN
         IF match # None
         THEN LET day == ToInt(match.g1)
                  month == MonthMapGet(match.g2)
                  year == ToInt(match.g3)
                  quarter == QuarterOfMonth(month)
              IN  [raised |-> FALSE,
                   full_date |-> Str(Dec(year) \o <<"-">> \o Pad2(month) \o <<"-">> \o Pad2(day)),
                   year_quarter |-> Dec(year) \o <<"_","Q">> \o Dec(quarter),
                   month |-> month, quarter |-> quarter]
         ELSE [raised |-> FALSE, full_date |-> None, year_quarter |-> unknown,
               month |-> 0, quarter |-> 0]

----------------------------------------------------------------------------
(* SpecPeriod: the period resolver on one header cell.                     *)

\* The years the headers are written with.
YearTexts == {<<"2","0","2","3">>, <<"1","9","9","9">>}

\* The ways a month name is capitalised in a header.
Capitalize(t) == <<UpperChar(t[1])>> \o SubSeq(t, 2, Len(t))
MonthCases == {"lower", "upper", "capital"}
MonthText(M, case) ==
    CASE case = "lower" -> month_map[M]
      [] case = "upper" -> Upper(month_map[M])
      [] case = "capital" -> Capitalize(month_map[M])

\* The ways day D is written: plain, and zero-padded when below 10.
DayTexts(D) == {Dec(D), Pad2(D)}
DayForms == UNION { { [D |-> D, text |-> d] : d \in DayTexts(D) } : D \in 1..31 }

al == <<"a","l"," ">>
de == <<" ","d","e"," ">>
sp == <<" ">>

\* Headers that carry a date, with how they were written:
\*   al_de  "al D de <month> de YYYY"
\*   no_de  "al D de <month> YYYY"
\*   range  "Del 1 de enero al D de <month> de YYYY"
HeaderShapes ==
    { s \in [form : {"al_de", "no_de", "range"}, d : DayForms, M : 1..12,
             case : MonthCases, Y : YearTexts] :
        s.form = "al_de" \/ (s.case = "lower" /\ s.Y = <<"2","0","2","3">>) }

HeaderText(s) ==
    LET dm == s.d.text \o de \o MonthText(s.M, s.case) IN
    CASE s.form = "al_de" -> al \o dm \o de \o s.Y
      [] s.form = "no_de" -> al \o dm \o sp \o s.Y
      [] s.form = "range" -> <<"D","e","l"," ","1"," ","d","e"," ","e","n","e","r","o"," ">>
                             \o al \o dm \o de \o s.Y

DatedHeaders ==
    { [cell |-> Str(HeaderText(s)),
       truth |-> [kind |-> "valid", form |-> s.form, D |-> s.d.D, dtext |-> s.d.text,
                  M |-> s.M, case |-> s.case, Y |-> s.Y]] : s \in HeaderShapes }

\* Headers whose month word is not in month_map.
NoLexiconHeaders ==
    { [cell |-> Str(al \o <<"5">> \o de \o w \o de \o <<"2","0","2","3">>),
       truth |-> [kind |-> "nolexicon", word |-> w]] :
      w \in {<<"f","o","o">>, <<"m","a","r","z","o","o">>, <<"m","a","r">>, <<"Q","1">>} }

\* Texts that carry no date at all.
NoDateTexts == {
    <<>>,
    <<"B","a","l","a","n","c","e"," ","P","r","e","s","u","p","u","e","s","t","a","r","i","o">>,
    <<"a","l"," ","3","1"," ","d","e"," ","m","a","r","z","o">>,
    <<"3","1"," ","m","a","r","z","o"," ","2","0","2","3">>,
    <<"a","l"," ","3","1"," ","d","e"," ","m","a","r","z","o"," ","d","e"," ","2","3">>,
    <<"m","a","r","z","o"," ","d","e"," ","2","0","2","3">>
}
NoDateHeaders == { [cell |-> Str(t), truth |-> [kind |-> "nodate"]] : t \in NoDateTexts }

\* Cells that are no text: a number, or the NaN of an empty cell.
NonStringHeaders ==
    { [cell |-> v, truth |-> [kind |-> "nonstring"]] : v \in {Num(2023), Num(0), NaN} }

HeaderInputs == DatedHeaders \cup NoLexiconHeaders \cup NoDateHeaders \cup NonStringHeaders

NotRun == [done |-> FALSE]
Ran(r) == [done |-> TRUE, r |-> r]

EmptyLast == [path |-> "none"]

\* The rows of a table that holds none.
EmptyRows == [k \in {} |-> None]
\* No object is stored under the key of the report.
NoObject == [found |-> FALSE, sheet |-> <<>>]

IdleRest ==
    /\ grid = <<>> /\ planted = <<>> /\ out = NotRun
    /\ tbl_exists = FALSE /\ tbl_rows = EmptyRows /\ last = EmptyLast
    /\ issued = {} /\ runs = <<>> /\ source = NoObject
    /\ bucket = <<>> /\ runlog = <<>> /\ caller = NotRun

InitPeriod ==
    /\ \E h \in HeaderInputs : header = h.cell /\ truth = h.truth
    /\ pf = NotRun
    /\ IdleRest

\* balance_presupuestario.py line 134: full_date, year_quarter = parse_fecha_header(header_text)
ParseFechaHeader ==
    /\ pf = NotRun
    /\ pf' = Ran(parse_fecha_header(header))
    /\ UNCHANGED <<header, truth, grid, planted, out, tbl_exists, tbl_rows, last,
                   issued, runs, source, bucket, runlog, caller>>

NextPeriod == ParseFechaHeader

SpecPeriod == InitPeriod /\ [][NextPeriod]_vars

----------------------------------------------------------------------------
(* C2: for every header "al D de <month> de YYYY" (D in 1..31, month M of   *)
(* the lexicon in any letter case, YYYY four digits), parse_fecha_header   *)
(* returns full_date = "YYYY-MM-DD", zero-padded, and year_quarter =       *)
(* "YYYY_Q" followed by (M-1)//3+1.                                        *)
C2_ValidHeaderParsed ==
    (pf.done /\ truth.kind = "valid" /\ truth.form = "al_de") =>
        /\ ~pf.r.raised
        /\ pf.r.full_date = Str(truth.Y \o <<"-">> \o Pad2(truth.M) \o <<"-">> \o Pad2(truth.D))
        /\ pf.r.year_quarter = truth.Y \o <<"_","Q">> \o Dec((truth.M - 1) \div 3 + 1)

\* An upper-case December header with a one-digit day has been resolved.
C2_Witness ==
    /\ pf.done
    /\ truth.kind = "valid" /\ truth.form = "al_de"
    /\ truth.M = 12 /\ truth.case = "upper" /\ truth.dtext = <<"7">>
    /\ pf.r.year_quarter = <<"2","0","2","3","_","Q","4">>

(* C3: for every header cell that contains no date, a number or an empty   *)
(* cell included, the resolver called by the transform returns             *)
(* (null, "unknown") and does not raise.                                   *)
C3_NoDateGivesUnknown ==
    (pf.done /\ truth.kind \in {"nodate", "nonstring"}) =>
        /\ ~pf.r.raised
        /\ pf.r.full_date = None
        /\ pf.r.year_quarter = unknown

(* C4: whenever parse_fecha_header returns a non-null full_date, the month *)
(* it used is a lexicon month 1..12 and year_quarter is "<year>_Q<q>" with *)
(* q in 1..4, q = ceil(month/3); a header whose month word is not in the   *)
(* lexicon is treated as no match.                                         *)
C4_MonthFromLexicon ==
    (pf.done /\ ~pf.r.raised) =>
        /\ pf.r.full_date # None =>
              /\ pf.r.month \in 1..12
              /\ pf.r.quarter \in 1..4
              /\ 3 * (pf.r.quarter - 1) < pf.r.month /\ pf.r.month <= 3 * pf.r.quarter
              /\ \E Y \in YearTexts : pf.r.year_quarter = Y \o <<"_","Q">> \o Dec(pf.r.quarter)
        /\ truth.kind = "nolexicon" =>
              (pf.r.full_date = None /\ pf.r.year_quarter = unknown)

----------------------------------------------------------------------------
(* transform_utils.extraer_codigo_y_sublabel and clean_amount              *)

\* The alternation A[123]|B[12]|C[12]|E[12]|F[12]|G[12]
CodeSet == {<<"A","1">>, <<"A","2">>, <<"A","3">>, <<"B","1">>, <<"B","2">>, <<"C","1">>, <<"C","2">>, <<"E","1">>, <<"E","2">>, <<"F","1">>, <<"F","2">>, <<"G","1">>, <<"G","2">>}

\* r'^(A[123]|B[12]|C[12]|E[12]|F[12]|G[12])\.' matches at the start of t
CodeMatch(t) == Len(t) >= 3 /\ SubSeq(t, 1, 2) \in CodeSet /\ t[3] = "."

\* t from the first position at or after i that is not white space
RECURSIVE SkipSpace(_, _)
SkipSpace(t, i) ==
    IF i <= Len(t) /\ IsSpace(t[i]) THEN SkipSpace(t, i + 1) ELSE SubSeq(t, i, Len(t))

\* extraer_codigo_y_sublabel(texto): groups 1 and 2 of
\* r'^(A[123]|...)\.\s*(.*)', else (None, texto)
extraer_codigo_y_sublabel(texto) ==
    IF CodeMatch(texto)
    THEN [code |-> Str(SubSeq(texto, 1, 2)), sublabel |-> SkipSpace(texto, 4)]
    ELSE [code |-> None, sublabel |-> texto]

\* str(val) of a cell value
PyStr(val) ==
    CASE val.kind = "str" -> val.s
      [] val.kind = "num" -> Dec(val.n)
      [] val.kind = "nan" -> <<"n","a","n">>

Float(n) == [kind |-> "float", v |-> n]
\* The floats that are no number: NaN and the infinities.
FloatNaN == [kind |-> "float", nan |-> TRUE]

\* t without the characters of the set cs: the chained str.replace(c, "")
RECURSIVE Without(_, _)
Without(t, cs) ==
    IF t = <<>> THEN <<>>
    ELSE IF t[1] \in cs THEN Without(Tail(t), cs)
    ELSE <<t[1]>> \o Without(Tail(t), cs)

\* str.strip()
RECURSIVE RStrip(_)
RStrip(t) == IF t # <<>> /\ IsSpace(t[Len(t)]) THEN RStrip(SubSeq(t, 1, Len(t) - 1)) ELSE t
Strip(t) == RStrip(SkipSpace(t, 1))

FloatInf(sign) == [kind |-> "float", inf |-> sign]

\* float(t) on the texts of the model, which carry no decimal point and no
\* exponent: white space around the text is dropped, a sign may lead, decimal
\* digits give their number, "nan", "inf" and "infinity" in any case give the
\* float NaN and the infinities, any other text raises ValueError.
PyFloat(t) ==
    LET s == Strip(t)
        signed == s # <<>> /\ s[1] \in {"+", "-"}
        sign == IF signed /\ s[1] = "-" THEN "-" ELSE "+"
        body == IF signed THEN Tail(s) ELSE s
    IN  IF body # <<>> /\ AllDigits(body, 1, Len(body))
        THEN [raised |-> FALSE,
              value |-> Float(IF sign = "-" THEN 0 - ToInt(body) ELSE ToInt(body))]
        ELSE IF Lower(body) = <<"n","a","n">> THEN [raised |-> FALSE, value |-> FloatNaN]
        ELSE IF Lower(body) \in {<<"i","n","f">>, <<"i","n","f","i","n","i","t","y">>}
        THEN [raised |-> FALSE, value |-> FloatInf(sign)]
        ELSE [raised |-> TRUE, exc |-> "ValueError"]

\* Mutant: the thousands separator is left in the text.
clean_amount_KeepsComma(val) ==
    LET r == PyFloat(Without(PyStr(val), {"$", " "})) IN
    IF r.raised THEN None ELSE r.value

\* clean_amount(val)
clean_amount(val) ==
    LET r == PyFloat(Without(PyStr(val), {",", "$", " "})) IN
    IF r.raised THEN None ELSE r.value

----------------------------------------------------------------------------
(* balance_presupuestario.transform_balance_presupuestario_data            *)
(* A sheet is a sequence of rows of five cells, columns 0..4.              *)

\* df.iloc[r, c]
Cell(df, r, c) == df[r + 1][c + 1]

value_vars == <<"estimated_or_approved", "devengado", "recaudado_pagado">>

\* lines 138-139: the rows whose column 1, as text, matches the code pattern
CodeRows(df) == SelectSeq(df, LAMBDA row : CodeMatch(PyStr(row[2])))

\* lines 142-143: drop_duplicates(subset='code', keep='first')
RECURSIVE DropDuplicates(_)
DropDuplicates(rows) ==
    IF rows = <<>> THEN <<>>
    ELSE LET init == SubSeq(rows, 1, Len(rows) - 1)
             r == rows[Len(rows)]
         IN  IF \E i \in 1..Len(init) : SubSeq(init[i][2].s, 1, 2) = SubSeq(r[2].s, 1, 2)
             THEN DropDuplicates(init)
             ELSE Append(DropDuplicates(init), r)

\* Mutant: the melt emits the first metric of every row only.
Melt_FirstMetricOnly(df_final, per) ==
    [k \in 1..Len(df_final) |->
        LET row == df_final[k]
            cs == extraer_codigo_y_sublabel(PyStr(row[2]))
        IN  [concept |-> cs.code, sublabel |-> cs.sublabel,
             year_quarter |-> per.year_quarter, full_date |-> per.full_date,
             type |-> value_vars[1], amount |-> clean_amount(row[3])]]

\* lines 153-166: melt (all rows per metric, metric after metric), the period
\* columns, and clean_amount on every amount
Melt(df_final, per) ==
    [k \in 1..(Len(value_vars) * Len(df_final)) |->
        LET m == (k - 1) \div Len(df_final) + 1
            row == df_final[((k - 1) % Len(df_final)) + 1]
            cs == extraer_codigo_y_sublabel(PyStr(row[2]))
        IN  [concept |-> cs.code, sublabel |-> cs.sublabel,
             year_quarter |-> per.year_quarter, full_date |-> per.full_date,
             type |-> value_vars[m], amount |-> clean_amount(row[2 + m])]]

\* transform_balance_presupuestario_data(df, file_path): the header of a sheet
\* with rows is df.iloc[3, 1]; a sheet with rows but fewer than four raises.
transform_balance_presupuestario_data(df) ==
    IF df # <<>> /\ Len(df) < 4 THEN [raised |-> TRUE, exc |-> "IndexError"]
    ELSE LET header_text == IF df # <<>> THEN Cell(df, 3, 1) ELSE Str(<<>>)
             per == parse_fecha_header(header_text)
         IN  IF per.raised THEN per
             ELSE IF df = <<>> THEN [raised |-> TRUE, exc |-> "KeyError"]
             ELSE [raised |-> FALSE, rows |-> Melt(DropDuplicates(CodeRows(df)), per)]

----------------------------------------------------------------------------
(* SpecTransform: the budget-balance transform on one sheet.               *)

\* Most rows written below the header row of a sheet.
MaxRows == 3

\* The ways a sheet's header cell (row 3, column 1) is written.
SheetHeaders == {
    [cell |-> Str(<<"a","l"," ","3","1"," ","d","e"," ","m","a","r","z","o"," ","d","e"," ","2","0","2","3">>), kind |-> "valid",
     full_date |-> <<"2","0","2","3","-","0","3","-","3","1">>, year_quarter |-> <<"2","0","2","3","_","Q","1">>],
    [cell |-> Str(<<"B","a","l","a","n","c","e"," ","P","r","e","s","u","p","u","e","s","t","a","r","i","o">>), kind |-> "nodate"],
    [cell |-> NaN, kind |-> "nonstring"]
}

\* The codes the code rows of the sheets are written with.
SheetCodes == {<<"A","1">>, <<"B","2">>, <<"G","2">>}

\* The ways the rest of a code row is written: the white space after the
\* period, the label, the three numbers and the cells that carry them.
RowStyles == {
    [gap |-> <<" ">>, label |-> <<"C","o","n","c","e","p","t","o"," ","1">>, nums |-> <<1000, 2000, 3000>>,
     cells |-> <<Str(<<"1",",","0","0","0">>), Str(<<"2",",","0","0","0">>), Str(<<"3",",","0","0","0">>)>>],
    [gap |-> <<" "," ">>, label |-> <<"I","n","g","r","e","s","o","s"," ","d","e"," ","L","i","b","r","e"," ">>, nums |-> <<0, 45, 1234567>>,
     cells |-> <<Num(0), Num(45), Num(1234567)>>],
    [gap |-> <<>>, label |-> <<>>, nums |-> <<4000, 5000, 6000000>>,
     cells |-> <<Str(<<"$","4",",","0","0","0">>), Str(<<"5","0","0","0">>), Str(<<"$"," ","6",",","0","0","0",",","0","0","0">>)>>]
}

CodeRowInputs ==
    { [row |-> <<NaN, Str(c \o <<".">> \o s.gap \o s.label)>> \o s.cells,
       truth |-> [kind |-> "code", code |-> c, label |-> s.label, nums |-> s.nums]] :
      c \in SheetCodes, s \in RowStyles }

\* Rows whose column 1 carries no code of the code set.
NoiseRowInputs ==
    { [row |-> <<NaN, c1, Str(<<"9",",","9","9","9">>), Num(7), NaN>>, truth |-> [kind |-> "noise"]] :
      c1 \in {Str(<<"A","4","."," ","O","t","r","o">>), NaN} }

RowInputs == CodeRowInputs \cup NoiseRowInputs

BlankRow == <<NaN, NaN, NaN, NaN, NaN>>

\* The sheets: three blank rows, the header row, and 1..MaxRows rows of which at
\* least one is a code row.
SheetBodies ==
    { b \in UNION { [1..n -> RowInputs] : n \in 1..MaxRows } :
        \E i \in 1..Len(b) : b[i].truth.kind = "code" }

SheetOf(h, b) ==
    <<BlankRow, BlankRow, BlankRow, <<NaN, h.cell, NaN, NaN, NaN>>>>
    \o [i \in 1..Len(b) |-> b[i].row]

\* The code rows of a sheet body, in sheet order.
PlantedOf(b) ==
    LET codes == SelectSeq(b, LAMBDA x : x.truth.kind = "code")
    IN  [i \in 1..Len(codes) |-> codes[i].truth]

IdleLoad ==
    /\ tbl_exists = FALSE /\ tbl_rows = EmptyRows /\ last = EmptyLast
    /\ issued = {} /\ runs = <<>> /\ source = NoObject
    /\ bucket = <<>> /\ runlog = <<>> /\ caller = NotRun

InitTransform ==
    /\ \E h \in SheetHeaders, b \in SheetBodies :
          /\ h.kind = "valid" \/ Len(b) = 1
          /\ grid = SheetOf(h, b)
          /\ planted = PlantedOf(b)
          /\ truth = h
    /\ header = None /\ pf = NotRun
    /\ out = NotRun
    /\ IdleLoad

\* pipeline line 82: transformed_df = transform_balance_presupuestario_data(extracted_df, file_path)
Transform ==
    /\ out = NotRun
    /\ grid # <<>>
    /\ out' = Ran(transform_balance_presupuestario_data(grid))
    /\ UNCHANGED <<header, truth, pf, grid, planted, tbl_exists, tbl_rows, last,
                   issued, runs, source, bucket, runlog, caller>>

NextTransform == Transform

SpecTransform == InitTransform /\ [][NextTransform]_vars

----------------------------------------------------------------------------
(* C1: given a sheet with a valid header at (row 3, column 1) and R rows   *)
(* that start with pairwise distinct codes followed by a period, each with *)
(* three numeric cells in columns 2-4, the transform returns exactly 3*R   *)
(* records: one per (code, metric), carrying the code as concept, the text *)
(* after the code as sublabel, the sheet's year_quarter and full_date, and *)
(* the amount of that row and metric column.                               *)
DistinctCodes(p) == \A i, j \in 1..Len(p) : i # j => p[i].code # p[j].code

C1_OneRecordPerCodeAndMetric ==
    (out.done /\ truth.kind = "valid" /\ DistinctCodes(planted)) =>
        /\ ~out.r.raised
        /\ Len(out.r.rows) = 3 * Len(planted)
        /\ \A i \in 1..Len(planted), m \in 1..3 :
              LET hits == {k \in 1..Len(out.r.rows) :
                              /\ out.r.rows[k].concept = Str(planted[i].code)
                              /\ out.r.rows[k].type = value_vars[m]}
              IN  /\ Cardinality(hits) = 1
                  /\ \A k \in hits :
                        /\ out.r.rows[k].sublabel = planted[i].label
                        /\ out.r.rows[k].year_quarter = truth.year_quarter
                        /\ out.r.rows[k].full_date = Str(truth.full_date)
                        /\ out.r.rows[k].amount = Float(planted[i].nums[m])

\* A sheet with three distinct code rows was transformed into nine records.
C1_Witness ==
    /\ out.done /\ truth.kind = "valid" /\ DistinctCodes(planted)
    /\ Len(planted) = 3
    /\ ~out.r.raised /\ Len(out.r.rows) = 9

----------------------------------------------------------------------------
(* The destination table and the statements the load paths send to it.     *)
(* A call is computed on a record [exists, rows, stmts, raised, exc]: the  *)
(* committed table, the statements executed so far, and whether the call   *)
(* has raised.  `fault` names the statement at which the connection fails  *)
(* ("none": it does not fail).                                             *)

Call(exists, rows) ==
    [exists |-> exists, rows |-> rows, stmts |-> <<>>, raised |-> FALSE, exc |-> "none"]

Raise(st, exc) == [st EXCEPT !.raised = TRUE, !.exc = exc]

Done(st, op, exists, rows) ==
    [st EXCEPT !.exists = exists, !.rows = rows,
               !.stmts = Append(@, [op |-> op, existed |-> st.exists,
                                    before |-> st.rows, after |-> rows])]

Keys(data) == {data[i].surrogate_key : i \in 1..Len(data)}
RowOf(data, k) == data[CHOOSE i \in 1..Len(data) : data[i].surrogate_key = k]
RowsOf(data) == [k \in Keys(data) |-> RowOf(data, k)]
HasDuplicates(data) ==
    \E i, j \in 1..Len(data) : i # j /\ data[i].surrogate_key = data[j].surrogate_key

\* Mutant: the table is created anew whether or not it exists.
CreateAll_Recreates(st, fault) ==
    IF st.raised THEN st
    ELSE IF fault = "create_all" THEN Raise(st, "OperationalError")
    ELSE Done(st, "create_all", TRUE, EmptyRows)

\* metadata.create_all(engine): CREATE TABLE unless the table exists
CreateAll(st, fault) ==
    IF st.raised THEN st
    ELSE IF fault = "create_all" THEN Raise(st, "OperationalError")
    ELSE Done(st, "create_all", TRUE, IF st.exists THEN st.rows ELSE EmptyRows)

\* Mutant: the statement leaves the table and its rows in place.
DropTable_Keeps(st, fault) ==
    IF st.raised THEN st
    ELSE IF fault = "drop" THEN Raise(st, "OperationalError")
    ELSE Done(st, "drop", st.exists, st.rows)

\* drop_table: DROP TABLE IF EXISTS in a transaction of its own
DropTable(st, fault) ==
    IF st.raised THEN st
    ELSE IF fault = "drop" THEN Raise(st, "OperationalError")
    ELSE Done(st, "drop", FALSE, EmptyRows)

\* TRUNCATE TABLE
Truncate(st, fault) ==
    IF st.raised THEN st
    ELSE IF fault = "truncate" THEN Raise(st, "OperationalError")
    ELSE IF ~st.exists THEN Raise(st, "ProgrammingError")
    ELSE Done(st, "truncate", TRUE, EmptyRows)

\* INSERT ... VALUES data: the primary key rejects the whole statement when an
\* identity is already in the table or occurs twice in the batch
ExecInsert(st, data, fault) ==
    IF st.raised THEN st
    ELSE IF fault = "insert" THEN Raise(st, "OperationalError")
    ELSE IF ~st.exists THEN Raise(st, "ProgrammingError")
    ELSE IF HasDuplicates(data) \/ Keys(data) \cap DOMAIN st.rows # {}
         THEN Raise(st, "IntegrityError")
    ELSE Done(st, "insert", TRUE, RowsOf(data) @@ st.rows)

\* Mutant: ON CONFLICT DO NOTHING, the row stays as it was.
OnConflictUpdate_KeepsOld(old, excluded, set_) == old

\* The row an identity collision leaves: the columns of set_ from the incoming
\* row (excluded), the others as they were
OnConflictUpdate(old, excluded, set_) ==
    [c \in DOMAIN old |-> IF c \in set_ THEN excluded[c] ELSE old[c]]

\* INSERT ... VALUES data ON CONFLICT (surrogate_key) DO UPDATE SET set_: the
\* statement is rejected when it would touch one row twice
ExecUpsert(st, data, set_, fault) ==
    IF st.raised THEN st
    ELSE IF fault = "insert" THEN Raise(st, "OperationalError")
    ELSE IF ~st.exists THEN Raise(st, "ProgrammingError")
    ELSE IF HasDuplicates(data) THEN Raise(st, "CardinalityViolation")
    ELSE Done(st, "upsert", TRUE,
              [k \in Keys(data) \cup DOMAIN st.rows |->
                  IF k \notin Keys(data) THEN st.rows[k]
                  ELSE IF k \in DOMAIN st.rows
                       THEN OnConflictUpdate(st.rows[k], RowOf(data, k), set_)
                       ELSE RowOf(data, k)])

\* COMMIT
Commit(st, fault) ==
    IF st.raised THEN st
    ELSE IF fault = "commit" THEN Raise(st, "OperationalError")
    ELSE st

\* A transaction that began at `begin` and ran to `end`: what it did is kept
\* when it committed and undone when it raised.
Transaction(begin, end) ==
    IF end.raised /\ ~begin.raised
    THEN [end EXCEPT !.exists = begin.exists, !.rows = begin.rows]
    ELSE end

\* except Exception as e: raise RuntimeError(...)
AsRuntimeError(st) == IF st.raised THEN [st EXCEPT !.exc = "RuntimeError"] ELSE st

----------------------------------------------------------------------------
(* connectors/postgresql.py: PostgreSqlClient                              *)

\* get_balance_presupuestario_table: the columns, and those of the primary key
TableColumns == {"surrogate_key", "concept", "sublabel", "year_quarter", "full_date",
                 "type", "amount"}
key_columns == {"surrogate_key"}

\* PostgreSqlClient.drop_table
drop_table(st, fault) == Transaction(st, Commit(DropTable(st, fault), fault))

\* PostgreSqlClient.insert
insert(st, data, fault) ==
    LET created == CreateAll(st, fault)
    IN  Transaction(created, Commit(ExecInsert(created, data, fault), fault))

\* PostgreSqlClient.overwrite
overwrite(st, data, fault) == insert(drop_table(st, fault), data, fault)

\* PostgreSqlClient.upsert: update_cols are the columns outside the primary key
upsert(st, data, fault) ==
    LET created == CreateAll(st, fault)
        update_cols == {c \in TableColumns : c \notin key_columns}
    IN  Transaction(created, Commit(ExecUpsert(created, data, update_cols, fault), fault))

----------------------------------------------------------------------------
(* assets: load, single_load, bulk_load                                    *)

\* Mutant: a method outside the three falls through to the default, upsert.
load_DefaultsToUpsert(st, data, load_method, fault) ==
    CASE load_method = "insert" -> insert(st, data, fault)
      [] load_method = "overwrite" -> overwrite(st, data, fault)
      [] OTHER -> upsert(st, data, fault)

\* load(df, postgresql_client, table, metadata, load_method)
load(st, data, load_method, fault) ==
    CASE load_method = "insert" -> insert(st, data, fault)
      [] load_method = "upsert" -> upsert(st, data, fault)
      [] load_method = "overwrite" -> overwrite(st, data, fault)
      [] OTHER -> Raise(st, "ValueError")

\* The set_ of each family's single_load
SingleLoadSet(family) ==
    CASE family = "balance" ->
            {"concept", "sublabel", "year_quarter", "full_date", "type", "amount"}
      [] family = "egresos" ->
            {c \in TableColumns : c # "surrogate_key"}
      [] family = "ingresos" ->
            {c \in TableColumns : c # "id"}

\* single_load(df, postgresql_client, table, metadata)
single_load(st, data, family, fault) ==
    LET created == CreateAll(st, fault)
    IN  AsRuntimeError(Transaction(created,
            Commit(ExecUpsert(created, data, SingleLoadSet(family), fault), fault)))

\* bulk_load(df, postgresql_client, table, metadata)
bulk_load(st, data, fault) ==
    LET created == CreateAll(st, fault)
    IN  AsRuntimeError(Transaction(created,
            Commit(ExecInsert(Truncate(created, fault), data, fault), fault)))

----------------------------------------------------------------------------
(* SpecLoad: batches loaded into the destination through every load path.  *)

\* Identities the batches of SpecLoad are written with: 1..MaxKeys.
MaxKeys == 2
\* Most rows of one batch.
MaxBatch == 2

\* The rows of the batches: an identity and two of the non-key columns.
LoadRows ==
    { [surrogate_key |-> k, concept |-> c.concept, amount |-> c.amount] :
      k \in 1..MaxKeys,
      c \in {[concept |-> "A1", amount |-> 10], [concept |-> "B2", amount |-> 20]} }

Batches == UNION { [1..n -> LoadRows] : n \in 1..MaxBatch }

LoadMethods == {"insert", "upsert", "overwrite", "append"}
Families == {"balance", "egresos", "ingresos"}

InitLoad ==
    /\ header = None /\ truth = None /\ pf = NotRun
    /\ grid = <<>> /\ planted = <<>> /\ out = NotRun
    /\ IdleLoad

\* The statements at which the connection can fail in each load path.
FaultsOf(path) ==
    CASE path \in {"insert", "upsert", "single_load"} -> {"none", "create_all", "insert", "commit"}
      [] path = "overwrite" -> {"none", "drop", "create_all", "insert", "commit"}
      [] path = "bulk_load" -> {"none", "create_all", "truncate", "insert", "commit"}
      [] OTHER -> {"none"}

\* What a load call leaves: the committed table, and the record of the call.
Loaded(path, data, fault, st) ==
    /\ tbl_exists' = st.exists
    /\ tbl_rows' = st.rows
    /\ last' = [path |-> path, data |-> data, fault |-> fault,
                existed |-> tbl_exists, before |-> tbl_rows,
                stmts |-> st.stmts, raised |-> st.raised, exc |-> st.exc]
    /\ UNCHANGED <<header, truth, pf, grid, planted, out, issued, runs, source, bucket, runlog, caller>>

PathOf(load_method) ==
    IF load_method \in {"insert", "upsert", "overwrite"} THEN load_method ELSE "invalid"

\* load(df, postgresql_client, table, metadata, load_method)
Load ==
    /\ last = EmptyLast
    /\ \E data \in Batches, load_method \in LoadMethods :
         \E fault \in FaultsOf(PathOf(load_method)) :
            LET st == load(Call(tbl_exists, tbl_rows), data, load_method, fault)
            IN  Loaded(PathOf(load_method), data, fault, st)

\* single_load(df, postgresql_client, table, metadata)
SingleLoad ==
    /\ last = EmptyLast
    /\ \E data \in Batches, family \in Families, fault \in FaultsOf("single_load") :
            LET st == single_load(Call(tbl_exists, tbl_rows), data, family, fault)
            IN  Loaded("single_load", data, fault, st)

\* bulk_load(df, postgresql_client, table, metadata)
BulkLoad ==
    /\ last = EmptyLast
    /\ \E data \in Batches, fault \in FaultsOf("bulk_load") :
            LET st == bulk_load(Call(tbl_exists, tbl_rows), data, fault)
            IN  Loaded("bulk_load", data, fault, st)

\* The process that made the load call ends; the table stays as committed.
Exit ==
    /\ last # EmptyLast
    /\ last' = EmptyLast
    /\ UNCHANGED <<header, truth, pf, grid, planted, out, tbl_exists, tbl_rows,
                   issued, runs, source, bucket, runlog, caller>>

NextLoad == Load \/ SingleLoad \/ BulkLoad \/ Exit

SpecLoad == InitLoad /\ [][NextLoad]_vars

\* The non-key columns of a row.
NonKey(row) == [c \in DOMAIN row \ key_columns |-> row[c]]

----------------------------------------------------------------------------
C8_OverwriteLeavesBatchOnly ==
    (last.path \in {"overwrite", "bulk_load"} /\ ~last.raised) =>
        /\ tbl_exists
        /\ tbl_rows = RowsOf(last.data)

\* An overwrite load succeeded on a table that held a row whose identity is not
\* in the batch.
C8_Witness ==
    /\ last.path \in {"overwrite", "bulk_load"} /\ ~last.raised
    /\ DOMAIN last.before \ Keys(last.data) # {}
    /\ DOMAIN tbl_rows = Keys(last.data)

(* C9: after a successful upsert (PostgreSqlClient.upsert or single_load)  *)
(* every incoming row is in the destination with its non-key columns equal *)
(* to the incoming values, every existing row whose identity is not in the *)
(* batch is unchanged, and the row count grows by the number of incoming   *)
(* identities that were not present.                                       *)
C9_UpsertMerges ==
    (last.path \in {"upsert", "single_load"} /\ ~last.raised) =>
        /\ \A i \in 1..Len(last.data) :
              /\ last.data[i].surrogate_key \in DOMAIN tbl_rows
              /\ NonKey(tbl_rows[last.data[i].surrogate_key]) = NonKey(last.data[i])
        /\ \A k \in DOMAIN last.before \ Keys(last.data) :
              k \in DOMAIN tbl_rows /\ tbl_rows[k] = last.before[k]
        /\ Cardinality(DOMAIN tbl_rows) =
              Cardinality(DOMAIN last.before)
              + Cardinality(Keys(last.data) \ DOMAIN last.before)

\* An upsert succeeded whose batch held one identity already present, with
\* other values, and one new identity, beside a row it did not touch.
C9_Witness ==
    /\ last.path \in {"upsert", "single_load"} /\ ~last.raised
    /\ \E k \in Keys(last.data) \cap DOMAIN last.before :
          NonKey(last.before[k]) # NonKey(tbl_rows[k])
    /\ Keys(last.data) \ DOMAIN last.before # {}

(* C10: in every load path the create-if-absent of the table happens       *)
(* before the first row is inserted and leaves the rows of an existing     *)
(* table unchanged; PostgreSqlClient.insert then adds all rows of the      *)
(* batch, and fails without adding any row if an incoming identity is      *)
(* already in the table.                                                   *)
C10_CreateThenInsert ==
    last.path # "none" =>
        /\ \A i \in 1..Len(last.stmts) :
              /\ last.stmts[i].op \in {"insert", "upsert"} =>
                    \E j \in 1..(i - 1) :
                        /\ last.stmts[j].op = "create_all"
                        /\ \A l \in (j + 1)..(i - 1) : last.stmts[l].op # "drop"
              /\ (last.stmts[i].op = "create_all" /\ last.stmts[i].existed) =>
                    last.stmts[i].after = last.stmts[i].before
        /\ (last.path = "insert" /\ ~last.raised) =>
              /\ \A i \in 1..Len(last.data) :
                    /\ last.data[i].surrogate_key \in DOMAIN tbl_rows
                    /\ tbl_rows[last.data[i].surrogate_key] = last.data[i]
              /\ \A k \in DOMAIN last.before : tbl_rows[k] = last.before[k]
        /\ (last.path = "insert" /\ Keys(last.data) \cap DOMAIN last.before # {}) =>
              /\ last.raised
              /\ tbl_rows = last.before

\* An insert whose batch held an identity of the table and a new one was
\* rejected, on a table that existed and held rows.
C10_Witness ==
    /\ last.path = "insert" /\ last.fault = "none"
    /\ last.existed /\ last.before # EmptyRows
    /\ Keys(last.data) \cap DOMAIN last.before # {}
    /\ Keys(last.data) \ DOMAIN last.before # {}
    /\ last.raised /\ last.exc = "IntegrityError"
    /\ tbl_rows = last.before

----------------------------------------------------------------------------
(* generate_surrogate_key, and the two budget-balance pipelines.           *)
(* A draw stands for the 32 random bytes of one call (uuid4 and            *)
(* os.urandom(16)); the random source is taken never to return the bytes   *)
(* of an earlier call, so an action draws among the values not yet issued. *)

\* Values of the random source.
MaxDraws == 6
\* Most pipeline runs of one behaviour.
MaxRuns == 2

Draws == 1..MaxDraws

\* generate_truly_unique_key(): the url-safe base64 text of the bytes drawn
generate_truly_unique_key(draw) == Str(<<"b", "6", "4", ":", draw>>)

\* Mutant: the key is generated once and broadcast to the rows of the frame.
generate_surrogate_key_OncePerFrame(df, draws) ==
    [i \in 1..Len(df) |->
        [surrogate_key |-> generate_truly_unique_key(draws[1])] @@ df[i]]

\* generate_surrogate_key(df): one call of generate_truly_unique_key per row
generate_surrogate_key(df, draws) ==
    [i \in 1..Len(df) |->
        [surrogate_key |-> generate_truly_unique_key(draws[i])] @@ df[i]]

\* The sequences of n values the random source can return next.
FreshDraws(n) ==
    IF n > Cardinality(Draws \ issued) THEN {}
    ELSE { d \in [1..n -> Draws \ issued] : \A i, j \in 1..n : i # j => d[i] # d[j] }

\* The random source of the model has values left for the records of one line
\* item.
ValuesLeft == Cardinality(Draws \ issued) >= Len(value_vars)

\* The stored object: none, a sheet without rows, or a sheet of one code row.
Sources ==
    {NoObject, [found |-> TRUE, sheet |-> <<>>]}
    \cup { [found |-> TRUE, sheet |-> SheetOf(h, <<b>>)] : h \in SheetHeaders,
           b \in {x \in CodeRowInputs : x.truth.code = <<"A", "1">> /\ x.truth.nums[1] = 1000} }

\* The connection of a pipeline's load holds, or fails at the INSERT.
PipelineFaults == {"none", "insert"}

InitPipeline ==
    /\ source \in Sources
    /\ header = None /\ truth = None /\ pf = NotRun
    /\ grid = <<>> /\ planted = <<>> /\ out = NotRun
    /\ tbl_exists = FALSE /\ tbl_rows = EmptyRows /\ last = EmptyLast
    /\ issued = {} /\ runs = <<>>
    /\ bucket = <<>> /\ runlog = <<>> /\ caller = NotRun

\* extract_balance_presupuestario_data(..., source="s3"): the sheet of the stored
\* object, or an empty frame when it cannot be read
extract_balance_presupuestario_data(obj) == IF obj.found THEN obj.sheet ELSE <<>>

\* What a pipeline run leaves: the table as committed, the values drawn, and the
\* record of the run.
Finished(kind, loaded, fault, draws, data, st) ==
    /\ tbl_exists' = st.exists
    /\ tbl_rows' = st.rows
    /\ issued' = issued \cup {draws[i] : i \in 1..Len(draws)}
    /\ runs' = Append(runs, [kind |-> kind, loaded |-> loaded, fault |-> fault,
                             draws |-> draws,
                             keys |-> [i \in 1..Len(data) |-> data[i].surrogate_key],
                             raised |-> st.raised, exc |-> st.exc,
                             before |-> Cardinality(DOMAIN tbl_rows),
                             count |-> Cardinality(DOMAIN st.rows)])
    /\ UNCHANGED <<header, truth, pf, grid, planted, out, last, source, bucket, runlog, caller>>

\* A run that raises before it generates keys.
Failed(kind, exc) ==
    Finished(kind, FALSE, "none", <<>>, <<>>, Raise(Call(tbl_exists, tbl_rows), exc))

\* pipeline lines 83-103: generate_surrogate_key, then PostgreSqlClient.upsert
KeyedUpsert(rows, draws, fault) ==
    Finished("single", TRUE, fault, draws, generate_surrogate_key(rows, draws),
             upsert(Call(tbl_exists, tbl_rows), generate_surrogate_key(rows, draws), fault))

\* bulk pipeline lines 78-98: generate_surrogate_key, then bulk_load
KeyedBulkLoad(rows, draws, fault) ==
    Finished("bulk", TRUE, fault, draws, generate_surrogate_key(rows, draws),
             bulk_load(Call(tbl_exists, tbl_rows), generate_surrogate_key(rows, draws), fault))

\* pipeline lines 76-103, on the frame extracted
PipelineOn(extracted_df, transformed) ==
    IF extracted_df = <<>> THEN Failed("single", "ValueError")
    ELSE IF transformed.raised THEN Failed("single", transformed.exc)
    ELSE \E draws \in FreshDraws(Len(transformed.rows)), fault \in PipelineFaults :
            KeyedUpsert(transformed.rows, draws, fault)

\* bulk pipeline lines 61-98, on the frame extracted from the one file
BulkPipelineOn(df_raw, df_clean) ==
    IF df_raw = <<>> THEN Failed("bulk", "ValueError")
    ELSE IF df_clean.raised THEN Failed("bulk", df_clean.exc)
    ELSE \E draws \in FreshDraws(Len(df_clean.rows)), fault \in PipelineFaults :
            KeyedBulkLoad(df_clean.rows, draws, fault)

\* balance_presupuestario_pipeline.pipeline: latest file, extract, transform,
\* generate_surrogate_key, PostgreSqlClient.upsert
Pipeline ==
    /\ Len(runs) < MaxRuns
    /\ ValuesLeft
    /\ IF ~source.found THEN Failed("single", "FileNotFoundError")
       ELSE PipelineOn(extract_balance_presupuestario_data(source),
                       transform_balance_presupuestario_data(
                           extract_balance_presupuestario_data(source)))

\* balance_presupuestario_bulk_pipeline.pipeline: every file, extract and
\* transform each, concat, generate_surrogate_key, bulk_load
BulkPipeline ==
    /\ Len(runs) < MaxRuns
    /\ ValuesLeft
    /\ IF ~source.found THEN Failed("bulk", "FileNotFoundError")
       ELSE BulkPipelineOn(extract_balance_presupuestario_data(source),
                           transform_balance_presupuestario_data(
                               extract_balance_presupuestario_data(source)))

NextPipeline == Pipeline \/ BulkPipeline

SpecPipeline == InitPipeline /\ [][NextPipeline]_vars

\* The identities of the batch of run r.
RunKeys(r) == {runs[r].keys[i] : i \in 1..Len(runs[r].keys)}

----------------------------------------------------------------------------
(* C5: running the single-period pipeline twice over the same unchanged    *)
(* source leaves the destination table with the same number of rows as     *)
(* after the first run.                                                    *)
C5_SecondRunAddsNoRows ==
    (/\ Len(runs) >= 2
     /\ runs[1].kind = "single" /\ ~runs[1].raised
     /\ runs[2].kind = "single" /\ ~runs[2].raised) =>
        runs[2].count = runs[1].count

(* C6: generate_surrogate_key gives every row of a batch a non-null        *)
(* identity; identities are pairwise distinct within a batch and across    *)
(* the batches of all runs, so a load that meets no connection failure     *)
(* never fails; and the identity of a row is the value drawn for it,       *)
(* whatever the row holds.                                                 *)
C6_IdentitiesDistinct ==
    \A r \in 1..Len(runs) :
        LET keys == runs[r].keys
        IN  /\ \A i \in 1..Len(keys) :
                  /\ keys[i] # None
                  /\ keys[i] = generate_truly_unique_key(runs[r].draws[i])
            /\ \A i, j \in 1..Len(keys) : i # j => keys[i] # keys[j]
            /\ \A q \in 1..Len(runs) : q # r => RunKeys(q) \cap RunKeys(r) = {}
            /\ (runs[r].loaded /\ runs[r].fault = "none") => ~runs[r].raised

\* Two runs over the same sheet were loaded: rows of the same content carry
\* different identities, and the table holds the rows of both runs.
C6_Witness ==
    /\ Len(runs) = 2
    /\ runs[1].kind = "single" /\ ~runs[1].raised /\ runs[1].loaded
    /\ runs[2].kind = "single" /\ ~runs[2].raised /\ runs[2].loaded
    /\ Len(runs[1].keys) = 3
    /\ DOMAIN tbl_rows = RunKeys(1) \cup RunKeys(2)
    /\ \A i \in 1..3 :
          /\ runs[1].keys[i] # runs[2].keys[i]
          /\ NonKey(tbl_rows[runs[1].keys[i]]) = NonKey(tbl_rows[runs[2].keys[i]])

----------------------------------------------------------------------------
\* What the client operation named by a valid load method does on the table
\* the last call found.
ClientOperation(method) ==
    CASE method = "insert" -> insert(Call(last.existed, last.before), last.data, last.fault)
      [] method = "upsert" -> upsert(Call(last.existed, last.before), last.data, last.fault)
      [] method = "overwrite" -> overwrite(Call(last.existed, last.before), last.data, last.fault)

(* C11: load() with a load_method other than 'insert', 'upsert' or          *)
(* 'overwrite' raises ValueError and sends no statement to the destination  *)
(* (no create, no drop, no insert); with a valid method it does exactly     *)
(* what the one matching client operation does.                             *)
C11_LoadSelectsMethod ==
    /\ last.path = "invalid" =>
          /\ last.raised /\ last.exc = "ValueError"
          /\ last.stmts = <<>>
          /\ tbl_exists = last.existed /\ tbl_rows = last.before
    /\ last.path \in {"insert", "upsert", "overwrite"} =>
          /\ last.stmts = ClientOperation(last.path).stmts
          /\ last.raised = ClientOperation(last.path).raised
          /\ tbl_exists = ClientOperation(last.path).exists
          /\ tbl_rows = ClientOperation(last.path).rows
          /\ \A i \in 1..Len(last.stmts) :
                /\ last.stmts[i].op = "drop" => last.path = "overwrite"
                /\ last.stmts[i].op = "upsert" => last.path = "upsert"
                /\ last.stmts[i].op = "insert" => last.path \in {"insert", "overwrite"}

\* load() was called with an invalid method on a table that held rows.
C11_Witness ==
    /\ last.path = "invalid" /\ last.raised /\ last.exc = "ValueError"
    /\ last.existed /\ last.before # EmptyRows
    /\ tbl_rows = last.before

----------------------------------------------------------------------------
(* SpecBulk: balance_presupuestario_bulk_pipeline over the stored objects  *)
(* of several periods.                                                     *)

\* Most periods with a stored object.
MaxPeriods == 2

\* The periods, and the objects stored for them: the listing returns the keys
\* in key order (..._1T2024.xlsx before ..._2T2023.xlsx).
AllPeriods == << <<2023, 2>>, <<2024, 1>>, <<2023, 1>>, <<2024, 2>> >>
Periods == {AllPeriods[i] : i \in 1..MaxPeriods}

\* The header a report of period p carries.
QuarterEnd ==
    << <<"3","1"," ","d","e"," ","m","a","r","z","o">>,
       <<"3","0"," ","d","e"," ","j","u","n","i","o">>,
       <<"3","0"," ","d","e"," ","s","e","p","t","i","e","m","b","r","e">>,
       <<"3","1"," ","d","e"," ","d","i","c","i","e","m","b","r","e">> >>
PeriodHeader(p) ==
    Str(<<"a","l"," ">> \o QuarterEnd[p[2]] \o <<" ","d","e"," ">> \o Dec(p[1]))

\* The code row of the reports.
PeriodRow == CHOOSE x \in CodeRowInputs : x.truth.code = <<"A", "1">> /\ x.truth.nums[1] = 1000

\* The object of period p: a report, an object that cannot be read as a sheet,
\* or a sheet that ends above the header row.
ObjectKinds == {"report", "unreadable", "no_header"}
ObjectOf(p, kind) ==
    CASE kind = "report" ->
            [found |-> TRUE, sheet |-> SheetOf([cell |-> PeriodHeader(p)], <<PeriodRow>>)]
      [] kind = "unreadable" -> [found |-> TRUE, sheet |-> <<>>]
      [] kind = "no_header" ->
            [found |-> TRUE, sheet |-> <<BlankRow, BlankRow, BlankRow>>]

Buckets ==
    UNION { { [p \in ps |-> ObjectOf(p, kinds[p])] : kinds \in [ps -> ObjectKinds] } :
            ps \in SUBSET Periods }

\* sorted(detected): by year, then by quarter
PeriodBefore(p, q) == p[1] < q[1] \/ (p[1] = q[1] /\ p[2] <= q[2])
RECURSIVE Sorted(_)
Sorted(ps) ==
    IF ps = {} THEN <<>>
    ELSE LET first == CHOOSE p \in ps : \A q \in ps : PeriodBefore(p, q)
         IN  <<first>> \o Sorted(ps \ {first})

\* find_all_presupuesto_files(): the periods of the listing, sorted
find_all_presupuesto_files(b) == Sorted(DOMAIN b)

\* The loop of the bulk pipeline before its first file.
NoFrames == [dfs |-> <<>>, order |-> <<>>, skipped |-> <<>>, raised |-> FALSE, exc |-> "none"]

\* Mutant: an empty frame ends the loop instead of moving on to the next file.
RECURSIVE BulkLoop_StopsAtEmpty(_, _, _)
BulkLoop_StopsAtEmpty(file_keys, b, acc) ==
    IF file_keys = <<>> THEN acc
    ELSE LET p == Head(file_keys)
             visited == [acc EXCEPT !.order = Append(@, p)]
         IN  IF extract_balance_presupuestario_data(b[p]) = <<>>
             THEN [visited EXCEPT !.skipped = Append(@, p)]
             ELSE IF transform_balance_presupuestario_data(b[p].sheet).raised
             THEN [visited EXCEPT !.raised = TRUE,
                                  !.exc = transform_balance_presupuestario_data(b[p].sheet).exc]
             ELSE BulkLoop_StopsAtEmpty(Tail(file_keys), b,
                     [visited EXCEPT !.dfs = Append(@,
                         transform_balance_presupuestario_data(b[p].sheet).rows)])

\* bulk pipeline lines 60-72: for year, quarter in file_keys: extract; an empty
\* frame is logged and skipped; the frame is transformed and appended.  An
\* exception of the transform leaves the loop and the pipeline.
RECURSIVE BulkLoop(_, _, _)
BulkLoop(file_keys, b, acc) ==
    IF file_keys = <<>> THEN acc
    ELSE LET p == Head(file_keys)
             visited == [acc EXCEPT !.order = Append(@, p)]
         IN  IF extract_balance_presupuestario_data(b[p]) = <<>>
             THEN BulkLoop(Tail(file_keys), b, [visited EXCEPT !.skipped = Append(@, p)])
             ELSE IF transform_balance_presupuestario_data(
                        extract_balance_presupuestario_data(b[p])).raised
             THEN [visited EXCEPT !.raised = TRUE,
                                  !.exc = transform_balance_presupuestario_data(
                                             extract_balance_presupuestario_data(b[p])).exc]
             ELSE BulkLoop(Tail(file_keys), b,
                     [visited EXCEPT !.dfs = Append(@,
                         transform_balance_presupuestario_data(
                             extract_balance_presupuestario_data(b[p])).rows)])

\* pd.concat(transformed_dfs, ignore_index=True)
RECURSIVE Concat(_)
Concat(dfs) == IF dfs = <<>> THEN <<>> ELSE Head(dfs) \o Concat(Tail(dfs))

\* What a bulk run leaves: the table as committed, the values drawn, and the
\* record of the run.
BulkFinished(frames, loaded, fault, draws, data, st) ==
    /\ tbl_exists' = st.exists
    /\ tbl_rows' = st.rows
    /\ issued' = issued \cup {draws[i] : i \in 1..Len(draws)}
    /\ runs' = Append(runs, [kind |-> "bulk", order |-> frames.order,
                             skipped |-> frames.skipped, dfs |-> frames.dfs,
                             loaded |-> loaded, fault |-> fault, draws |-> draws,
                             keys |-> [i \in 1..Len(data) |-> data[i].surrogate_key],
                             raised |-> st.raised, exc |-> st.exc,
                             stmts |-> st.stmts,
                             existed |-> tbl_exists, before |-> tbl_rows])
    /\ UNCHANGED <<header, truth, pf, grid, planted, out, last, source, bucket,
                   runlog, caller>>

\* A bulk run that raises before it generates keys.
BulkFailed(frames, exc) ==
    BulkFinished(frames, FALSE, "none", <<>>, <<>>, Raise(Call(tbl_exists, tbl_rows), exc))

\* bulk pipeline lines 78-98: concat, generate_surrogate_key, bulk_load
BulkKeyedLoad(frames, final_df, draws, fault) ==
    BulkFinished(frames, TRUE, fault, draws, generate_surrogate_key(final_df, draws),
                 bulk_load(Call(tbl_exists, tbl_rows),
                           generate_surrogate_key(final_df, draws), fault))

\* bulk pipeline lines 74-98, after the loop
BulkAfterLoop(frames) ==
    IF frames.raised THEN BulkFailed(frames, frames.exc)
    ELSE IF frames.dfs = <<>> THEN BulkFailed(frames, "ValueError")
    ELSE \E draws \in FreshDraws(Len(Concat(frames.dfs))), fault \in PipelineFaults :
            BulkKeyedLoad(frames, Concat(frames.dfs), draws, fault)

\* balance_presupuestario_bulk_pipeline.pipeline
BulkRun ==
    /\ runs = <<>>
    /\ IF find_all_presupuesto_files(bucket) = <<>>
       THEN BulkFailed(NoFrames, "FileNotFoundError")
       ELSE BulkAfterLoop(BulkLoop(find_all_presupuesto_files(bucket), bucket, NoFrames))

\* A row loaded by an earlier run.
PriorKey == Str(<<"o", "l", "d">>)
PriorRows ==
    [k \in {PriorKey} |->
        [surrogate_key |-> PriorKey, concept |-> Str(<<"A", "1">>),
         sublabel |-> <<"C","o","n","c","e","p","t","o"," ","1">>,
         year_quarter |-> <<"2","0","2","2","_","Q","4">>,
         full_date |-> Str(<<"2","0","2","2","-","1","2","-","3","1">>),
         type |-> "devengado", amount |-> Float(1)]]

InitBulk ==
    /\ bucket \in Buckets
    /\ \/ tbl_exists = FALSE /\ tbl_rows = EmptyRows
       \/ tbl_exists = TRUE /\ tbl_rows = PriorRows
    /\ header = None /\ truth = None /\ pf = NotRun
    /\ grid = <<>> /\ planted = <<>> /\ out = NotRun
    /\ last = EmptyLast /\ issued = {} /\ runs = <<>> /\ source = NoObject
    /\ runlog = <<>> /\ caller = NotRun

NextBulk == BulkRun

SpecBulk == InitBulk /\ [][NextBulk]_vars

\* The periods of the bucket whose object is of the given kind.
OfKind(kind) == {p \in DOMAIN bucket : bucket[p] = ObjectOf(p, kind)}

\* year_quarter of the records of period p
PeriodTag(p) == Dec(p[1]) \o <<"_", "Q">> \o Dec(p[2])

\* s lists the periods of ps once each, earlier periods first.
InPeriodOrder(s, ps) ==
    /\ {s[i] : i \in 1..Len(s)} = ps
    /\ \A i, j \in 1..Len(s) : i < j => (PeriodBefore(s[i], s[j]) /\ s[i] # s[j])

----------------------------------------------------------------------------
(* C12: a bulk run over N >= 2 discovered periods of which exactly one     *)
(* extracts to an empty frame (the others being well-formed reports, the   *)
(* load meeting no connection failure) does not raise, visits the periods  *)
(* in discovered order, and loads the records of exactly the other N-1     *)
(* periods.                                                                *)
C12_EmptyPeriodSkipped ==
    (/\ Len(runs) = 1
     /\ Cardinality(DOMAIN bucket) >= 2
     /\ Cardinality(OfKind("unreadable")) = 1
     /\ OfKind("report") \cup OfKind("unreadable") = DOMAIN bucket
     /\ runs[1].fault = "none") =>
        /\ ~runs[1].raised
        /\ InPeriodOrder(runs[1].order, DOMAIN bucket)
        /\ InPeriodOrder(runs[1].skipped, OfKind("unreadable"))
        /\ Len(runs[1].keys) = Len(value_vars) * Cardinality(OfKind("report"))
        /\ DOMAIN tbl_rows = {runs[1].keys[i] : i \in 1..Len(runs[1].keys)}
        /\ \E loaded \in [1..Cardinality(OfKind("report")) -> OfKind("report")] :
              /\ InPeriodOrder(loaded, OfKind("report"))
              /\ \A j \in 1..Len(loaded), m \in 1..Len(value_vars) :
                    LET row == tbl_rows[runs[1].keys[Len(value_vars) * (j - 1) + m]]
                    IN  /\ row.year_quarter = PeriodTag(loaded[j])
                        /\ row.concept = Str(<<"A", "1">>)
                        /\ row.type = value_vars[m]

\* The first of two periods was unreadable; the run loaded the three records of
\* the second in place of the row the table held.
C12_Witness ==
    /\ Len(runs) = 1 /\ ~runs[1].raised /\ runs[1].fault = "none"
    /\ Cardinality(DOMAIN bucket) >= 2
    /\ Cardinality(OfKind("unreadable")) = 1
    /\ OfKind("report") \cup OfKind("unreadable") = DOMAIN bucket
    /\ runs[1].skipped = <<runs[1].order[1]>>
    /\ runs[1].before = PriorRows
    /\ Cardinality(DOMAIN tbl_rows) = Len(value_vars) * (Cardinality(DOMAIN bucket) - 1)

(* C13: in a bulk run, a period whose transform fails hard (here: the      *)
(* sheet has no header row) is skipped, and the remaining periods are      *)
(* still processed and loaded; the run is not aborted.                     *)
C13_FailedTransformSkipped ==
    (/\ Len(runs) = 1
     /\ OfKind("no_header") # {} /\ OfKind("report") # {}
     /\ runs[1].fault = "none") =>
        /\ ~runs[1].raised
        /\ InPeriodOrder(runs[1].order, DOMAIN bucket)
        /\ Cardinality(DOMAIN tbl_rows) = Len(value_vars) * Cardinality(OfKind("report"))

(* C14: a bulk run fails because of per-period extract/transform failures  *)
(* only when zero periods succeeded; then, and when no file is discovered, *)
(* it raises before the destination is touched, so the table is as it was. *)
C14_FatalOnlyIfNoneSucceeded ==
    (Len(runs) = 1 /\ runs[1].raised /\ ~runs[1].loaded) =>
        /\ runs[1].dfs = <<>>
        /\ runs[1].stmts = <<>>
        /\ tbl_exists = runs[1].existed /\ tbl_rows = runs[1].before

----------------------------------------------------------------------------
(* SpecSplit: extraer_codigo_y_sublabel on one text.                       *)

\* The texts: two characters, a period or none, white space, a label, white
\* space; `truth` keeps the parts the text was written from.
SplitHeads == CodeSet \cup {<<"A","4">>, <<"D","1">>, <<"a","1">>, <<" ","A">>, <<"1","A">>}
SplitGaps == {<<>>, <<" ">>, <<" ", " ">>}
SplitLabels == {<<>>, <<"C","o","n","c","e","p","t","o">>,
                <<"I","n","g","r","e","s","o","s"," ","d","e"," ","L","i","b","r","e">>,
                <<"B","2",".">>}
SplitParts ==
    [head : SplitHeads, dot : {<<".">>, <<>>, <<",">>}, lead : SplitGaps,
     label : SplitLabels, trail : SplitGaps]
SplitText(p) == p.head \o p.dot \o p.lead \o p.label \o p.trail

InitSplit ==
    /\ \E p \in SplitParts : header = Str(SplitText(p)) /\ truth = p
    /\ pf = NotRun
    /\ IdleRest

\* balance_presupuestario.py line 149: extraer_codigo_y_sublabel(str(x))
SplitCode ==
    /\ pf = NotRun
    /\ pf' = Ran(extraer_codigo_y_sublabel(PyStr(header)))
    /\ UNCHANGED <<header, truth, grid, planted, out, tbl_exists, tbl_rows, last,
                   issued, runs, source, bucket, runlog, caller>>

NextSplit == SplitCode

SpecSplit == InitSplit /\ [][NextSplit]_vars

(* C20: for a text that starts with a code of the fixed set immediately    *)
(* followed by a period, extraer_codigo_y_sublabel returns that code and   *)
(* the remainder after the period with leading and trailing white space    *)
(* removed; for every other text it returns (null, the text unchanged).    *)
C20_CodeAndTrimmedLabel ==
    pf.done =>
        IF truth.head \in CodeSet /\ truth.dot = <<".">>
        THEN /\ pf.r.code = Str(truth.head)
             /\ pf.r.sublabel = truth.label
        ELSE /\ pf.r.code = None
             /\ pf.r.sublabel = SplitText(truth)

----------------------------------------------------------------------------
(* assets/egresos_detallado.py: the detailed-expenditure transform.        *)
(* A sheet is a sequence of rows of eight cells (columns 0..7).            *)

\* Length of the run of digits of t that starts at position i.
RECURSIVE DigitRun(_, _)
DigitRun(t, i) == IF i <= Len(t) /\ IsDigit(t[i]) THEN 1 + DigitRun(t, i + 1) ELSE 0

\* The ways r'al (\d{1,2}) de (\w+) de (\d{4})' matches t from position i, as
\* (digits of the day, characters of the month word).
DetalladoCands(t, i) ==
    IF ~HasAt(t, i, <<"a","l"," ">>) THEN {}
    ELSE UNION { {c \in {d} \X (1..WordRun(t, i + 3 + d + 4)) :
                      FechaMatchAs(t, i + 3, c[1], c[2], TRUE)} : d \in 1..2 }

RECURSIVE DetalladoFirst(_, _)
DetalladoFirst(t, i) ==
    IF i > Len(t) THEN 0
    ELSE IF DetalladoCands(t, i) # {} THEN i
    ELSE DetalladoFirst(t, i + 1)

\* re.search(r'al (\d{1,2}) de (\w+) de (\d{4})', t): the groups of the leftmost
\* match, the day taken greedily; None when no position matches.
DetalladoSearch(t) ==
    LET i == DetalladoFirst(t, 1) IN
    IF i > 0
    THEN LET c == CHOOSE a \in DetalladoCands(t, i) :
                      \A b \in DetalladoCands(t, i) : a[1] >= b[1] /\ (a[1] = b[1] => a[2] >= b[2])
             pw == i + 3 + c[1] + 4
             py == pw + c[2] + 4
         IN  [kind |-> "match",
              g1 |-> SubSeq(t, i + 3, i + 3 + c[1] - 1),
              g2 |-> SubSeq(t, pw, pw + c[2] - 1),
              g3 |-> SubSeq(t, py, py + 3)]
    ELSE None

\* egresos lines 96-110: fecha and cuarto of the date cell
EgresosFecha(date_cell) ==
    LET m == DetalladoSearch(date_cell) IN
    IF m # None
    THEN LET day_n == ToInt(m.g1)
             mon_num == MonthMapGet(Lower(m.g2))
             yr == ToInt(m.g3)
         IN  [fecha |-> Dec(yr) \o <<"-">> \o Pad2(mon_num) \o <<"-">> \o Pad2(day_n),
              cuarto |-> Str(<<"Q">> \o Dec(QuarterOfMonth(mon_num)))]
    ELSE [fecha |-> <<>>, cuarto |-> None]

\* r'^\s*II\.\s*Gasto Etiquetado' is found in t
GastoEtiquetado(t) ==
    LET u == SkipSpace(t, 1) IN
    /\ HasAt(u, 1, <<"I","I",".">>)
    /\ HasAt(SkipSpace(u, 4), 1,
             <<"G","a","s","t","o"," ","E","t","i","q","u","e","t","a","d","o">>)

\* Mutant: the letter of the code keeps its case.
extract_codigo_KeepsCase(texto) ==
    LET u == SkipSpace(PyStr(texto), 1)
        n == DigitRun(u, 2)
    IN  IF /\ u # <<>> /\ (IsUpper(u[1]) \/ IsLower(u[1]))
           /\ n >= 1 /\ HasAt(u, 2 + n, <<")">>)
        THEN Str(SubSeq(u, 1, 1 + n))
        ELSE None

\* extract_codigo(texto): r'^\s*([A-Za-z])([0-9]+)\)' on str(texto)
extract_codigo(texto) ==
    LET u == SkipSpace(PyStr(texto), 1)
        n == DigitRun(u, 2)
    IN  IF /\ u # <<>> /\ (IsUpper(u[1]) \/ IsLower(u[1]))
           /\ n >= 1 /\ HasAt(u, 2 + n, <<")">>)
        THEN Str(<<UpperChar(u[1])>> \o SubSeq(u, 2, 1 + n))
        ELSE None

columnas == <<"Concepto", "Aprobado", "Ampliaciones/Reducciones", "Modificado",
              "Devengado", "Pagado", "Subejercicio">>

\* df.iloc[a:b, 1:8].values: rows a..b-1 (from 0) that exist, columns 1..7
SliceRows(df, a, b) ==
    LET last_row == IF b < Len(df) THEN b ELSE Len(df)
    IN  [k \in 1..(IF last_row > a THEN last_row - a ELSE 0) |-> SubSeq(df[a + k], 2, 8)]

\* Least element of a non-empty set of numbers: idxmax() of a boolean column,
\* vacias[0].
First(S) == CHOOSE x \in S : \A y \in S : x <= y

\* A record of the expenditure table: the seven columns of the sheet row, and
\* Codigo, Fecha, Cuarto.
EgresosRecord(cells, codigo, fecha, cuarto) ==
    [c \in {columnas[k] : k \in 1..Len(columnas)} \cup {"Codigo", "Fecha", "Cuarto"} |->
        CASE c = "Codigo" -> codigo
          [] c = "Fecha" -> fecha
          [] c = "Cuarto" -> cuarto
          [] OTHER -> cells[IndexIn(c, columnas)]]

\* drop_duplicates(subset='Codigo'): the first row of every Codigo
RECURSIVE DropDuplicateCodigo(_)
DropDuplicateCodigo(rows) ==
    IF rows = <<>> THEN <<>>
    ELSE LET init == SubSeq(rows, 1, Len(rows) - 1)
             r == rows[Len(rows)]
         IN  IF \E i \in 1..Len(init) : init[i]["Codigo"] = r["Codigo"]
             THEN DropDuplicateCodigo(init)
             ELSE Append(DropDuplicateCodigo(init), r)

\* Mutant: drop_duplicates(subset='Codigo', keep='last').
procesar_tabla_KeepsLast(df_tabla, fecha, cuarto) ==
    LET coded == [i \in 1..Len(df_tabla) |->
                     EgresosRecord(df_tabla[i], extract_codigo(df_tabla[i][1]), fecha, cuarto)]
        kept == SelectSeq(coded, LAMBDA r : r["Codigo"] # None)
        lasts == SelectSeq([i \in 1..Len(kept) |-> [r |-> kept[i], i |-> i]],
                           LAMBDA x : \A j \in (x.i + 1)..Len(kept) :
                                         kept[j]["Codigo"] # x.r["Codigo"])
    IN  [k \in 1..Len(lasts) |-> lasts[k].r]

\* procesar_tabla(df_tabla, fecha, cuarto)
procesar_tabla(df_tabla, fecha, cuarto) ==
    LET coded == [i \in 1..Len(df_tabla) |->
                     EgresosRecord(df_tabla[i], extract_codigo(df_tabla[i][1]), fecha, cuarto)]
    IN  DropDuplicateCodigo(SelectSeq(coded, LAMBDA r : r["Codigo"] # None))

\* df["Seccion"] = seccion
WithSeccion(rows, seccion) == [i \in 1..Len(rows) |-> ("Seccion" :> seccion) @@ rows[i]]

\* egresos lines 112-133, from the row of the 'II. Gasto Etiquetado' header on
EgresosSections(df, per, idx_ii_header) ==
    LET fila_inicio_II == idx_ii_header + 1
        vacias == {r \in fila_inicio_II..(Len(df) - 1) : Strip(PyStr(Cell(df, r, 1))) = <<>>}
        fila_fin_II == IF vacias # {} THEN First(vacias) ELSE Len(df)
        df_I == procesar_tabla(SliceRows(df, 8, idx_ii_header), per.fecha, per.cuarto)
        df_II == procesar_tabla(SliceRows(df, fila_inicio_II, fila_fin_II), per.fecha, per.cuarto)
    IN  WithSeccion(df_I, "I") \o WithSeccion(df_II, "II")

\* Mutant: the last row that matches the header of section II is the anchor.
transform_egresos_detallado_data_LastAnchor(df) ==
    IF Len(df) < 5 THEN [raised |-> TRUE, exc |-> "IndexError"]
    ELSE LET idx_ii_candidates == {r \in 0..(Len(df) - 1) : GastoEtiquetado(PyStr(Cell(df, r, 1)))}
         IN  IF idx_ii_candidates = {} THEN [raised |-> TRUE, exc |-> "ValueError"]
             ELSE [raised |-> FALSE,
                   rows |-> EgresosSections(df, EgresosFecha(PyStr(Cell(df, 4, 1))),
                                            CHOOSE r \in idx_ii_candidates :
                                                \A q \in idx_ii_candidates : q <= r)]

\* transform_egresos_detallado_data(df, file_path)
transform_egresos_detallado_data(df) ==
    IF Len(df) < 5 THEN [raised |-> TRUE, exc |-> "IndexError"]
    ELSE LET idx_ii_candidates == {r \in 0..(Len(df) - 1) : GastoEtiquetado(PyStr(Cell(df, r, 1)))}
         IN  IF idx_ii_candidates = {} THEN [raised |-> TRUE, exc |-> "ValueError"]
             ELSE [raised |-> FALSE,
                   rows |-> EgresosSections(df, EgresosFecha(PyStr(Cell(df, 4, 1))),
                                            First(idx_ii_candidates))]

----------------------------------------------------------------------------
(* assets/ingresos_detallado.py: the detailed-income transform.            *)

\* ' '.join(texts)
RECURSIVE Join(_)
Join(texts) ==
    IF texts = <<>> THEN <<>>
    ELSE IF Len(texts) = 1 THEN texts[1]
    ELSE texts[1] \o <<" ">> \o Join(Tail(texts))

\* extract_fecha_y_cuarto(df): the cells of row 3, columns 1..7, as text,
\* stripped and joined
extract_fecha_y_cuarto(df) ==
    LET date_range_str == Join([k \in 1..7 |-> Strip(PyStr(Cell(df, 3, k)))])
        m == DetalladoSearch(date_range_str)
    IN  IF m # None
        THEN LET day == ToInt(m.g1)
                 month == MonthMapGet(Lower(m.g2))
                 year == ToInt(m.g3)
             IN  [fecha |-> Dec(year) \o <<"-">> \o Pad2(month) \o <<"-">> \o Pad2(day),
                  cuarto |-> Dec(year) \o <<"_", "Q">> \o Dec(QuarterOfMonth(month))]
        ELSE [fecha |-> <<>>, cuarto |-> <<>>]

\* str.extract(r'^([A-Z]\.)')[0]
prim_pat(t) == IF Len(t) >= 2 /\ IsUpper(t[1]) /\ t[2] = "." THEN Str(SubSeq(t, 1, 2)) ELSE NaN

\* Mutant: the pattern is not anchored, the first match anywhere is taken.
RECURSIVE sec_pat_Unanchored(_)
sec_pat_Unanchored(t) ==
    IF t = <<>> THEN NaN
    ELSE IF IsLower(t[1]) /\ DigitRun(t, 2) >= 1 /\ HasAt(t, 2 + DigitRun(t, 2), <<")">>)
    THEN Str(SubSeq(t, 1, 2 + DigitRun(t, 2)))
    ELSE sec_pat_Unanchored(Tail(t))

\* str.extract(r'^([a-z]\d+\))')[0]
sec_pat(t) ==
    IF t # <<>> /\ IsLower(t[1]) /\ DigitRun(t, 2) >= 1 /\ HasAt(t, 2 + DigitRun(t, 2), <<")">>)
    THEN Str(SubSeq(t, 1, 2 + DigitRun(t, 2)))
    ELSE NaN

columnas_base == <<"concepto", "estimado", "ampliaciones_reducciones", "modificado",
                   "devengado", "recaudado", "diferencia">>

\* procesar_tabla_ingresos(df_tabla, fecha, cuarto, seccion): every row of the
\* region, with the two keys extracted from its concepto
procesar_tabla_ingresos(df_tabla, fecha, cuarto, seccion) ==
    [i \in 1..Len(df_tabla) |->
        [c \in {columnas_base[k] : k \in 1..Len(columnas_base)}
               \cup {"clave_primaria", "clave_secundaria", "fecha", "cuarto", "seccion"} |->
            CASE c = "clave_primaria" -> prim_pat(PyStr(df_tabla[i][1]))
              [] c = "clave_secundaria" -> sec_pat(PyStr(df_tabla[i][1]))
              [] c = "fecha" -> fecha
              [] c = "cuarto" -> cuarto
              [] c = "seccion" -> seccion
              [] OTHER -> df_tabla[i][IndexIn(c, columnas_base)]]]

\* ingresos lines 94-117, with the period of the sheet
IngresosSections(df, per) ==
    procesar_tabla_ingresos(SliceRows(df, 7, 44), per.fecha, per.cuarto, "I")
    \o procesar_tabla_ingresos(SliceRows(df, 45, 76), per.fecha, per.cuarto, "II")

\* transform_ingresos_detallado_data(df, file_path)
transform_ingresos_detallado_data(df) ==
    IF Len(df) < 4 THEN [raised |-> TRUE, exc |-> "IndexError"]
    ELSE [raised |-> FALSE, rows |-> IngresosSections(df, extract_fecha_y_cuarto(df))]

----------------------------------------------------------------------------
(* SpecFamilies: the transform of each report family on one sheet.         *)
(* `planted` lists the rows written into the data regions of the sheet, in *)
(* sheet order: the section, the code the row was written with (None: a    *)
(* row without code) and its cells, concept first.                         *)

\* Most rows written into one section of a detailed report.
MaxSectionRows == 2

BlankRow8 == [k \in 1..8 |-> NaN]
\* A row of a detailed report: column 0 empty, the concept, six amounts.
DetailRow(concept, n) == <<NaN, concept>> \o [k \in 1..6 |-> Num(n + k)]
Planted(section, code, row, nums) ==
    [section |-> section, code |-> code, cells |-> Tail(row), nums |-> nums]
\* The amounts DetailRow writes.
DetailNums(n) == [k \in 1..6 |-> n + k]

\* The rows the sections of an expenditure report are written with.
EgresosRowInputs == {
    [row |-> DetailRow(Str(<<"a","1",")"," ","S","e","r","v","i","c","i","o","s">>), 10), nums |-> DetailNums(10),
     code |-> Str(<<"A","1">>)],
    [row |-> DetailRow(Str(<<" ","A","1",")"," ","O","t","r","o","s">>), 20), nums |-> DetailNums(20),
     code |-> Str(<<"A","1">>)],
    [row |-> DetailRow(Str(<<"b","1","2",")"," ","O","b","r","a">>), 30), nums |-> DetailNums(30),
     code |-> Str(<<"B","1","2">>)],
    [row |-> DetailRow(Str(<<"T","o","t","a","l"," ","d","e"," ","E","g","r","e","s","o","s">>), 40), nums |-> DetailNums(40),
     code |-> None] }

SectionBodies(inputs) == UNION { [1..n -> inputs] : n \in 0..MaxSectionRows }

DetailDate ==
    Str(<<"D","e","l"," ","1"," ","d","e"," ","e","n","e","r","o"," ",
          "a","l"," ","3","1"," ","d","e"," ","M","a","r","z","o"," ","d","e"," ","2","0","2","3">>)
GastoEtiquetadoRow ==
    DetailRow(Str(<<"I","I","."," ","G","a","s","t","o"," ","E","t","i","q","u","e","t","a","d","o">>), 0)

\* What follows section II: the end of the sheet, or a row whose concept is
\* blank text and a row of notes after it.
EgresosTails == {
    <<>>,
    << DetailRow(Str(<<" ">>), 0),
       DetailRow(Str(<<"c","3",")"," ","N","o","t","a","s">>), 50) >> }

EgresosSheet(sI, sII, tail) ==
    <<BlankRow8, BlankRow8, BlankRow8, BlankRow8, <<NaN, DetailDate>> \o [k \in 1..6 |-> NaN],
      BlankRow8, BlankRow8, BlankRow8>>
    \o [i \in 1..Len(sI) |-> sI[i].row]
    \o <<GastoEtiquetadoRow>>
    \o [i \in 1..Len(sII) |-> sII[i].row]
    \o tail

EgresosPlanted(sI, sII) ==
    [i \in 1..Len(sI) |-> Planted("I", sI[i].code, sI[i].row, sI[i].nums)]
    \o [i \in 1..Len(sII) |-> Planted("II", sII[i].code, sII[i].row, sII[i].nums)]

\* The rows the sections of an income report are written with.
IngresosRowInputs == {
    [row |-> DetailRow(Str(<<"A","."," ","I","m","p","u","e","s","t","o","s">>), 10), nums |-> DetailNums(10),
     code |-> Str(<<"A",".">>)],
    [row |-> DetailRow(Str(<<"A","."," ","I","m","p","u","e","s","t","o","s"," ","2">>), 20), nums |-> DetailNums(20),
     code |-> Str(<<"A",".">>)],
    [row |-> DetailRow(Str(<<"h","1",")"," ","F","o","n","d","o">>), 30), nums |-> DetailNums(30),
     code |-> Str(<<"h","1",")">>)],
    [row |-> DetailRow(Str(<<"T","o","t","a","l"," ","d","e"," ","I","n","g","r","e","s","o","s">>), 40), nums |-> DetailNums(40),
     code |-> None] }

\* Row 3 of an income report: the period, written across two cells.
IngresosDateRow ==
    <<NaN, Str(<<"D","e","l"," ","1"," ","d","e"," ","e","n","e","r","o"," ">>),
           Str(<<"a","l"," ","3","0"," ","d","e"," ","j","u","n","i","o"," ","d","e"," ","2","0","2","3">>)>>
    \o [k \in 1..5 |-> NaN]

\* A sheet that ends with section I, or one with both sections: section I from
\* row 7, the title of section II in row 44, section II from row 45; the rows
\* of section I that carry no line item are empty.
IngresosSheet(sI, sII, full) ==
    <<BlankRow8, BlankRow8, BlankRow8, IngresosDateRow, BlankRow8, BlankRow8, BlankRow8>>
    \o [i \in 1..Len(sI) |-> sI[i].row]
    \o (IF full
        THEN [k \in 1..(37 - Len(sI)) |-> BlankRow8]
             \o <<DetailRow(Str(<<"I","I","."," ","T","r","a","n","s","f","e","r","e","n","c","i","a","s">>), 0)>>
             \o [i \in 1..Len(sII) |-> sII[i].row]
        ELSE <<>>)

IngresosPlanted(sI, sII, full) ==
    [i \in 1..Len(sI) |-> Planted("I", sI[i].code, sI[i].row, sI[i].nums)]
    \o (IF full
        THEN [k \in 1..(37 - Len(sI)) |-> Planted("I", None, BlankRow8, <<>>)]
             \o [i \in 1..Len(sII) |-> Planted("II", sII[i].code, sII[i].row, sII[i].nums)]
        ELSE <<>>)

\* The rows below the header of a budget-balance sheet, as planted rows.
BalancePlanted(b) ==
    [i \in 1..Len(b) |->
        IF b[i].truth.kind = "code"
        THEN Planted("", Str(b[i].truth.code), b[i].row, b[i].truth.nums)
        ELSE Planted("", None, b[i].row, <<>>)]

\* The rows the budget-balance sheets of SpecFamilies are written with.
BalanceRowInputs ==
    {x \in CodeRowInputs : x.truth.code \in {<<"A","1">>, <<"B","2">>} /\ x.truth.label # <<>>}
    \cup {x \in NoiseRowInputs : x.row[2] # NaN}
BalanceBodies ==
    {b \in SectionBodies(BalanceRowInputs) : \E i \in 1..Len(b) : b[i].truth.kind = "code"}

ValidSheetHeader == CHOOSE h \in SheetHeaders : h.kind = "valid"

InitFamilies ==
    /\ \/ \E b \in BalanceBodies :
             /\ truth = [family |-> "balance"]
             /\ grid = SheetOf(ValidSheetHeader, b)
             /\ planted = BalancePlanted(b)
       \/ \E sI \in SectionBodies(EgresosRowInputs), sII \in SectionBodies(EgresosRowInputs),
             tail \in EgresosTails :
             /\ truth = [family |-> "egresos"]
             /\ grid = EgresosSheet(sI, sII, tail)
             /\ planted = EgresosPlanted(sI, sII)
       \/ \E sI \in SectionBodies(IngresosRowInputs), sII \in SectionBodies(IngresosRowInputs),
             full \in BOOLEAN :
             /\ full \/ sII = <<>>
             /\ truth = [family |-> "ingresos"]
             /\ grid = IngresosSheet(sI, sII, full)
             /\ planted = IngresosPlanted(sI, sII, full)
    /\ header = None /\ pf = NotRun /\ out = NotRun
    /\ IdleLoad

\* balance pipeline line 82: transform_balance_presupuestario_data(extracted_df, file_path)
TransformBalance ==
    /\ out = NotRun /\ truth.family = "balance"
    /\ out' = Ran(transform_balance_presupuestario_data(grid))
    /\ UNCHANGED <<header, truth, pf, grid, planted, tbl_exists, tbl_rows, last,
                   issued, runs, source, bucket, runlog, caller>>

\* egresos pipeline line 81: transform_egresos_detallado_data(extracted_df, file_path)
TransformEgresos ==
    /\ out = NotRun /\ truth.family = "egresos"
    /\ out' = Ran(transform_egresos_detallado_data(grid))
    /\ UNCHANGED <<header, truth, pf, grid, planted, tbl_exists, tbl_rows, last,
                   issued, runs, source, bucket, runlog, caller>>

\* ingresos pipeline line 75: transform_ingresos_detallado_data(df_raw, file_path)
TransformIngresos ==
    /\ out = NotRun /\ truth.family = "ingresos"
    /\ out' = Ran(transform_ingresos_detallado_data(grid))
    /\ UNCHANGED <<header, truth, pf, grid, planted, tbl_exists, tbl_rows, last,
                   issued, runs, source, bucket, runlog, caller>>

NextFamilies == TransformBalance \/ TransformEgresos \/ TransformIngresos

SpecFamilies == InitFamilies /\ [][NextFamilies]_vars

\* A missing value: None, or the NaN of pandas.
Null(v) == v = None \/ v = NaN

\* The section and the code of a record of the output, whatever the family.
OutSection(r) ==
    CASE truth.family = "balance" -> ""
      [] truth.family = "egresos" -> r["Seccion"]
      [] truth.family = "ingresos" -> r["seccion"]
OutCode(r) ==
    CASE truth.family = "balance" -> r["concept"]
      [] truth.family = "egresos" -> r["Codigo"]
      [] truth.family = "ingresos" ->
            IF ~Null(r["clave_primaria"]) THEN r["clave_primaria"] ELSE r["clave_secundaria"]

\* The first planted row of a section that carries a code.
FirstPlanted(section, code) ==
    planted[First({i \in 1..Len(planted) :
                      planted[i].section = section /\ planted[i].code = code})]

\* The records of the output of a section and code.
Hits(section, code) ==
    {k \in 1..Len(out.r.rows) :
        OutSection(out.r.rows[k]) = section /\ OutCode(out.r.rows[k]) = code}

\* The sections and codes of the planted rows that carry a code.
PlantedItems ==
    {<<planted[i].section, planted[i].code>> : i \in {j \in 1..Len(planted) : planted[j].code # None}}

----------------------------------------------------------------------------
(* C16: in the budget-balance transform and in procesar_tabla of the       *)
(* detailed-expenditure transform, of several rows of one section with the *)
(* same code the output keeps the values of the first in sheet order only; *)
(* a code that occurs in section I and in section II yields a record for   *)
(* each section.                                                           *)
C16_FirstOfDuplicatesKept ==
    (out.done /\ truth.family \in {"balance", "egresos"}) =>
        /\ ~out.r.raised
        /\ \A item \in PlantedItems :
              LET first == FirstPlanted(item[1], item[2])
              IN  IF truth.family = "balance"
                  THEN \A m \in 1..Len(value_vars) :
                          LET hits == {k \in Hits(item[1], item[2]) :
                                          out.r.rows[k].type = value_vars[m]}
                          IN  /\ Cardinality(hits) = 1
                              /\ \A k \in hits : out.r.rows[k].amount = Float(first.nums[m])
                  ELSE /\ Cardinality(Hits(item[1], item[2])) = 1
                       /\ \A k \in Hits(item[1], item[2]), c \in 1..Len(columnas) :
                             out.r.rows[k][columnas[c]] = first.cells[c]

\* An expenditure sheet with one code twice in section I, under different
\* amounts, and once in section II: one record for each section.
C16_Witness ==
    /\ out.done /\ truth.family = "egresos" /\ ~out.r.raised
    /\ Len(planted) = 3
    /\ planted[1].section = "I" /\ planted[2].section = "I" /\ planted[3].section = "II"
    /\ planted[1].code # None
    /\ planted[2].code = planted[1].code /\ planted[3].code = planted[1].code
    /\ planted[2].cells # planted[1].cells
    /\ Len(out.r.rows) = 2
    /\ out.r.rows[1]["Seccion"] = "I" /\ out.r.rows[2]["Seccion"] = "II"

(* C17: in the output of every family's transform for one sheet, no two    *)
(* line items of the same section carry the same non-null code.            *)
C17_CodeUniqueInSection ==
    (out.done /\ ~out.r.raised) =>
        \A j, k \in 1..Len(out.r.rows) :
            (/\ j # k
             /\ ~Null(OutCode(out.r.rows[j]))
             /\ OutCode(out.r.rows[j]) = OutCode(out.r.rows[k])
             /\ OutSection(out.r.rows[j]) = OutSection(out.r.rows[k])) =>
                (truth.family = "balance" /\ out.r.rows[j].type # out.r.rows[k].type)

(* C19: in all three family transforms a row from which the family's code  *)
(* grammar extracts no code produces no output record: every output record *)
(* has a non-null code.                                                    *)
C19_NoRecordWithoutCode ==
    (out.done /\ ~out.r.raised) =>
        \A k \in 1..Len(out.r.rows) : ~Null(OutCode(out.r.rows[k]))

\* The names in a list of column names.
Names(cols) == {cols[i] : i \in 1..Len(cols)}

\* The metric columns of a family, and the line items its transform retains:
\* the distinct (section, code) of the coded rows for budget-balance and
\* detailed-expenditure, every row of the two regions for detailed-income.
MetricNames ==
    CASE truth.family = "balance" -> value_vars
      [] truth.family = "egresos" -> Tail(columnas)
      [] truth.family = "ingresos" -> Tail(columnas_base)
Retained ==
    IF truth.family = "ingresos" THEN Len(planted) ELSE Cardinality(PlantedItems)

----------------------------------------------------------------------------
(* SpecWrapper: the run wrappers of the single-period pipelines.           *)
(* `runlog` is the pipeline_logs table, the rows of the wrapper's pipeline *)
(* name in insertion order; `out` is what pipeline() did, `caller` what    *)
(* the caller of the wrapper saw. The logging database is taken to answer. *)

LogEntry(run_id, status) == [run_id |-> run_id, status |-> status]

\* MetaDataLogging._get_run_id: MAX(run_id) of the pipeline's rows, or 0, plus 1
RECURSIVE MaxRunId(_)
MaxRunId(log) ==
    IF log = <<>> THEN 0
    ELSE LET rest == MaxRunId(Tail(log))
         IN  IF Head(log).run_id > rest THEN Head(log).run_id ELSE rest
get_run_id(log) == MaxRunId(log) + 1

\* MetaDataLogging.log(status): one row with the run_id of the logger
log(entries, run_id, status) == Append(entries, LogEntry(run_id, status))

\* The logs earlier runs of the wrapper left: every run a 'start' row and a
\* 'success' or 'fail' row.
RECURSIVE LogOfRuns(_)
LogOfRuns(ends) ==
    IF ends = <<>> THEN <<>>
    ELSE LogOfRuns(SubSeq(ends, 1, Len(ends) - 1))
         \o <<LogEntry(Len(ends), "start"), LogEntry(Len(ends), ends[Len(ends)])>>
PriorLogs == { LogOfRuns(e) : e \in UNION { [1..n -> {"success", "fail"}] : n \in 0..MaxRuns } }

\* The stored object of the latest period of a family: none, a sheet without
\* rows, a sheet too short for its header cell, or a report of one row.
WrapperSources(family) ==
    CASE family = "balance" -> Sources
      [] family = "egresos" ->
            {NoObject, [found |-> TRUE, sheet |-> <<>>],
             [found |-> TRUE, sheet |-> <<BlankRow8, BlankRow8, BlankRow8>>]}
            \cup { [found |-> TRUE, sheet |-> EgresosSheet(<<r>>, <<>>, <<>>)] : r \in EgresosRowInputs }
      [] family = "ingresos" ->
            {NoObject, [found |-> TRUE, sheet |-> <<>>],
             [found |-> TRUE, sheet |-> <<BlankRow8, BlankRow8, BlankRow8>>]}
            \cup { [found |-> TRUE, sheet |-> IngresosSheet(<<r>>, <<>>, FALSE)] : r \in IngresosRowInputs }

InitWrapper ==
    /\ truth \in [family : {"balance", "egresos", "ingresos"}]
    /\ source \in WrapperSources(truth.family)
    /\ runlog \in PriorLogs
    /\ \/ tbl_exists = FALSE /\ tbl_rows = EmptyRows
       \/ tbl_exists = TRUE /\ tbl_rows = PriorRows
    /\ header = None /\ pf = NotRun
    /\ grid = <<>> /\ planted = <<>> /\ out = NotRun
    /\ last = EmptyLast /\ issued = {} /\ runs = <<>>
    /\ bucket = <<>> /\ caller = NotRun

\* What pipeline() does: the outcome of its last call and the values it drew.
Outcome(st, draws) == [st |-> st, draws |-> draws]

\* balance and egresos pipeline(), from the extracted frame on: the empty
\* frame raises, the transform may raise, the keyed records are upserted
UpsertOutcomes(extracted_df, transformed) ==
    IF extracted_df = <<>> THEN {Outcome(Raise(Call(tbl_exists, tbl_rows), "ValueError"), <<>>)}
    ELSE IF transformed.raised
    THEN {Outcome(Raise(Call(tbl_exists, tbl_rows), transformed.exc), <<>>)}
    ELSE { Outcome(upsert(Call(tbl_exists, tbl_rows),
                          generate_surrogate_key(transformed.rows, draws), fault), draws) :
             draws \in FreshDraws(Len(transformed.rows)), fault \in PipelineFaults }

\* balance_presupuestario_pipeline.pipeline
balance_pipeline(obj) ==
    IF ~obj.found
    THEN {Outcome(Raise(Call(tbl_exists, tbl_rows), "FileNotFoundError"), <<>>)}
    ELSE UpsertOutcomes(extract_balance_presupuestario_data(obj),
                        transform_balance_presupuestario_data(
                            extract_balance_presupuestario_data(obj)))

\* egresos_detallado_pipeline.pipeline
egresos_pipeline(obj) ==
    IF ~obj.found
    THEN {Outcome(Raise(Call(tbl_exists, tbl_rows), "FileNotFoundError"), <<>>)}
    ELSE UpsertOutcomes(obj.sheet,
                        IF obj.sheet = <<>> THEN [raised |-> TRUE, exc |-> "IndexError"]
                        ELSE transform_egresos_detallado_data(obj.sheet))

\* ingresos_detallados_pipeline.pipeline: find_latest_ingresos_file is defined
\* without parameters and called with bucket_name=..., which raises TypeError
\* before anything is extracted
ingresos_pipeline(obj) == {Outcome(Raise(Call(tbl_exists, tbl_rows), "TypeError"), <<>>)}

\* The try block and the except block of a wrapper, around the outcome of
\* pipeline(): 'start', then 'success', or 'fail' and the error raised again or
\* not.
Wrapped(run_id, outcome, reraises) ==
    /\ runlog' = log(log(runlog, run_id, "start"), run_id,
                     IF outcome.st.raised THEN "fail" ELSE "success")
    /\ out' = Ran([raised |-> outcome.st.raised, exc |-> outcome.st.exc,
                   existed |-> tbl_exists, before |-> tbl_rows])
    /\ tbl_exists' = outcome.st.exists
    /\ tbl_rows' = outcome.st.rows
    /\ issued' = issued \cup {outcome.draws[i] : i \in 1..Len(outcome.draws)}
    /\ caller' = Ran(IF outcome.st.raised /\ reraises
                     THEN [raised |-> TRUE, exc |-> outcome.st.exc]
                     ELSE [raised |-> FALSE, exc |-> "none"])
    /\ UNCHANGED <<header, truth, pf, grid, planted, last, runs, source, bucket>>

\* run_balance_pipeline(pipeline_name, log_client): the except block ends in raise
run_balance_pipeline ==
    /\ caller = NotRun /\ truth.family = "balance"
    /\ \E outcome \in balance_pipeline(source) : Wrapped(get_run_id(runlog), outcome, TRUE)

\* run_egresos_pipeline(pipeline_name, log_client): the except block ends in raise
run_egresos_pipeline ==
    /\ caller = NotRun /\ truth.family = "egresos"
    /\ \E outcome \in egresos_pipeline(source) : Wrapped(get_run_id(runlog), outcome, TRUE)

\* run_pipeline(pipeline_name, log_client) of the income family: the except
\* block logs and ends without raise
run_pipeline ==
    /\ caller = NotRun /\ truth.family = "ingresos"
    /\ \E outcome \in ingresos_pipeline(source) : Wrapped(get_run_id(runlog), outcome, FALSE)

NextWrapper == run_balance_pipeline \/ run_egresos_pipeline \/ run_pipeline

SpecWrapper == InitWrapper /\ [][NextWrapper]_vars

(* C15: for each single-period run wrapper, if pipeline() raises (as on an *)
(* empty sheet, where nothing is written to the destination) the wrapper   *)
(* records a 'fail' run-status row and then propagates the error to its    *)
(* caller.                                                                 *)
C15_FailRecordedAndPropagated ==
    (caller.done /\ out.r.raised) =>
        /\ runlog[Len(runlog)].status = "fail"
        /\ runlog[Len(runlog)].run_id = runlog[Len(runlog) - 1].run_id
        /\ runlog[Len(runlog) - 1].status = "start"
        /\ (out.r.exc \in {"ValueError", "FileNotFoundError", "IndexError", "TypeError"}) =>
               (tbl_exists = out.r.existed /\ tbl_rows = out.r.before)
        /\ caller.r.raised /\ caller.r.exc = out.r.exc

----------------------------------------------------------------------------
(* SpecCodigo: extract_codigo on one cell. `truth` keeps the parts a text  *)
(* cell was written from, or the kind of a cell that is no text.           *)

CodigoLeads == {<<>>, <<" ">>, <<" ", " ">>, <<"\t">>}
CodigoLetters == {<<"a">>, <<"A">>, <<"z">>, <<"1">>, <<"_">>, <<"a", "b">>, <<>>}
CodigoDigits == {<<>>, <<"1">>, <<"1", "2">>, <<"0", "7">>}
CodigoCloses == {<<")">>, <<>>, <<".">>, <<" ", ")">>}
CodigoRests == {<<>>, <<" ", "O", "b", "r", "a">>, <<")">>}
CodigoParts ==
    [kind : {"text"}, lead : CodigoLeads, letter : CodigoLetters, digits : CodigoDigits,
     close : CodigoCloses, rest : CodigoRests]
CodigoText(p) == p.lead \o p.letter \o p.digits \o p.close \o p.rest
\* Cells that are no text: the empty cell and numbers.
OtherCells == {NaN, Num(0), Num(12), Num(2023)}

InitCodigo ==
    /\ \/ \E p \in CodigoParts : header = Str(CodigoText(p)) /\ truth = p
       \/ \E c \in OtherCells : header = c /\ truth = [kind |-> "other"]
    /\ pf = NotRun
    /\ IdleRest

\* egresos_detallado.py line 137: df_tabla['Concepto'].apply(extract_codigo)
ExtractCodigo ==
    /\ pf = NotRun
    /\ pf' = Ran(extract_codigo(header))
    /\ UNCHANGED <<header, truth, grid, planted, out, tbl_exists, tbl_rows, last,
                   issued, runs, source, bucket, runlog, caller>>

NextCodigo == ExtractCodigo

SpecCodigo == InitCodigo /\ [][NextCodigo]_vars

(* C21: for a cell text of optional leading white space, one ASCII letter, *)
(* one or more digits and a closing parenthesis, followed by anything,     *)
(* extract_codigo returns the upper-cased letter followed by the digits    *)
(* unchanged; for every other cell value, texts and cells that are no text *)
(* alike, it returns null.                                                 *)
C21_CodigoExtracted ==
    pf.done =>
        IF /\ truth.kind = "text"
           /\ Len(truth.letter) = 1 /\ (IsUpper(truth.letter[1]) \/ IsLower(truth.letter[1]))
           /\ truth.digits # <<>> /\ HasAt(truth.close \o truth.rest, 1, <<")">>)
        THEN pf.r = Str(Upper(truth.letter) \o truth.digits)
        ELSE pf.r = None

\* ' a07) Obra' has given 'A07'.
C21_Witness ==
    /\ pf.done /\ truth.kind = "text"
    /\ truth.lead = <<" ">> /\ truth.letter = <<"a">> /\ truth.digits = <<"0", "7">>
    /\ truth.close = <<")">> /\ truth.rest # <<>>
    /\ pf.r = Str(<<"A", "0", "7">>)

----------------------------------------------------------------------------
(* SpecClaves: procesar_tabla_ingresos on a region of one row. `truth`     *)
(* keeps the parts the concepto cell was written from.                     *)

PrimaryKeys == {<<"A", ".">>, <<"Z", ".">>}
SecondaryKeys == {<<"a", "1", ")">>, <<"h", "1", "2", ")">>}
ClaveTokens ==
    PrimaryKeys \cup SecondaryKeys
    \cup {<<>>, <<"A">>, <<"a", ")">>, <<"1", ".">>, <<"a", ".">>, <<"A", "1", ")">>}
ClaveSeps == {<<>>, <<" ">>, <<"\n">>}
ClaveParts ==
    [kind : {"text"}, lead : {<<>>, <<" ">>}, first : ClaveTokens, sep : ClaveSeps,
     second : ClaveTokens, rest : {<<>>, <<" ", "I", "m", "p", "u", "e", "s", "t", "o", "s">>}]
ClaveText(p) == p.lead \o p.first \o p.sep \o p.second \o p.rest

\* The region of one row whose concepto is the cell.
ClaveRegion(cell) == << Tail(DetailRow(cell, 10)) >>

InitClaves ==
    /\ \/ \E p \in ClaveParts : header = Str(ClaveText(p)) /\ truth = p
       \/ \E c \in OtherCells : header = c /\ truth = [kind |-> "other"]
    /\ pf = NotRun
    /\ IdleRest

\* ingresos_detallado.py lines 109 and 114: procesar_tabla_ingresos(tbl, fecha, cuarto, seccion)
ProcesarClaves ==
    /\ pf = NotRun
    /\ \E seccion \in {"I", "II"} :
          pf' = Ran(procesar_tabla_ingresos(ClaveRegion(header), <<>>, <<>>, seccion)[1])
    /\ UNCHANGED <<header, truth, grid, planted, out, tbl_exists, tbl_rows, last,
                   issued, runs, source, bucket, runlog, caller>>

NextClaves == ProcesarClaves

SpecClaves == InitClaves /\ [][NextClaves]_vars

\* The key of a set the text of the cell starts with, or NaN.
KeyAtStart(keys) ==
    IF truth.kind = "text" /\ \E k \in keys : HasAt(ClaveText(truth), 1, k)
    THEN Str(CHOOSE k \in keys : HasAt(ClaveText(truth), 1, k))
    ELSE NaN

\* The two keys the processor gives for the concepto of given parts.
ClavesOf(p) ==
    LET r == procesar_tabla_ingresos(ClaveRegion(Str(ClaveText(p))), <<>>, <<>>, "I")[1]
    IN  <<r["clave_primaria"], r["clave_secundaria"]>>

\* Each key is extracted from the concepto on its own and stored in its field.
KeysSeparate ==
    /\ pf.r["clave_primaria"] = KeyAtStart(PrimaryKeys)
    /\ pf.r["clave_secundaria"] = KeyAtStart(SecondaryKeys)
    /\ pf.r["concepto"] = header

(* C22 (as stated): the primary key and the secondary key are extracted    *)
(* independently from the same concepto cell and stored in separate        *)
(* fields, and they are not mutually exclusive: some cell text gives both  *)
(* keys on the same row, some only one, some neither.                      *)
C22_KeysNotExclusive ==
    pf.done =>
        /\ KeysSeparate
        /\ \E p \in ClaveParts : ClavesOf(p)[1] # NaN /\ ClavesOf(p)[2] # NaN
        /\ \E p \in ClaveParts : ClavesOf(p)[1] # NaN /\ ClavesOf(p)[2] = NaN
        /\ \E p \in ClaveParts : ClavesOf(p)[1] = NaN /\ ClavesOf(p)[2] # NaN
        /\ \E p \in ClaveParts : ClavesOf(p)[1] = NaN /\ ClavesOf(p)[2] = NaN

(* C22 (amended): the primary key and the secondary key are extracted      *)
(* independently from the same concepto cell and stored in separate        *)
(* fields; both patterns are anchored at the start of the text, so a row   *)
(* has the primary key only, the secondary key only, or neither, and never *)
(* both.                                                                   *)
C22_KeysExclusive ==
    pf.done =>
        /\ KeysSeparate
        /\ pf.r["clave_primaria"] = NaN \/ pf.r["clave_secundaria"] = NaN

\* 'A.a1) Impuestos' has given the primary key 'A.' and no secondary key.
C22_Witness ==
    /\ pf.done /\ truth.kind = "text"
    /\ truth.lead = <<>> /\ truth.first = <<"A", ".">> /\ truth.sep = <<>>
    /\ truth.second = <<"a", "1", ")">> /\ truth.rest # <<>>
    /\ pf.r["clave_primaria"] = Str(<<"A", ".">>)
    /\ pf.r["clave_secundaria"] = NaN

----------------------------------------------------------------------------
(* SpecAmount: clean_amount on one cell. `truth` keeps how the cell was    *)
(* written: an amount in digits with '$', thousands separators and spaces, *)
(* a text that is no number, a number cell, or the empty cell.             *)

AmountGroups == {<<"1">>, <<"2", "5">>, <<"0", "0", "0">>, <<"9", "9", "9">>}
AmountParts ==
    [kind : {"amount"}, lead : {<<>>, <<" ">>}, cur : {<<>>, <<"$">>, <<"$", " ">>},
     first : AmountGroups, comma : {<<>>, <<",">>}, second : AmountGroups \cup {<<>>},
     trail : {<<>>, <<" ">>}]
AmountText(p) == p.lead \o p.cur \o p.first \o p.comma \o p.second \o p.trail
\* Texts that are no number.
OtherTexts == {
    <<>>, <<" ">>, <<"$">>, <<",">>, <<"-">>, <<"N", "/", "A">>, <<"a", "b", "c">>,
    <<"1", "2", "x">>, <<"T", "o", "t", "a", "l">>, <<"n", "a", "n">>, <<"N", "a", "N">>,
    <<"i", "n", "f">>, <<"-", "i", "n", "f">>, <<"I", "n", "f", "i", "n", "i", "t", "y">> }

InitAmount ==
    /\ \/ \E p \in AmountParts : header = Str(AmountText(p)) /\ truth = p
       \/ \E t \in OtherTexts : header = Str(t) /\ truth = [kind |-> "text"]
       \/ \E n \in {0, 7, 1000, 2000} : header = Num(n) /\ truth = [kind |-> "num"]
       \/ header = NaN /\ truth = [kind |-> "empty"]
    /\ pf = NotRun
    /\ IdleRest

\* balance_presupuestario.py line 166: df_long['amount'].apply(clean_amount)
CleanAmount ==
    /\ pf = NotRun
    /\ pf' = Ran(clean_amount(header))
    /\ UNCHANGED <<header, truth, grid, planted, out, tbl_exists, tbl_rows, last,
                   issued, runs, source, bucket, runlog, caller>>

NextAmount == CleanAmount

SpecAmount == InitAmount /\ [][NextAmount]_vars

(* C23: clean_amount returns a number or null: for a digit string with ',' *)
(* thousands separators, an optional '$' and spaces it returns the number  *)
(* left after removing those characters; for the empty string, the empty   *)
(* cell and any text that is no number it returns null.                    *)
C23_NumberOrNull ==
    pf.done =>
        CASE truth.kind = "amount" -> pf.r = Float(ToInt(truth.first \o truth.second))
          [] truth.kind = "num" -> pf.r = Float(header.n)
          [] OTHER -> pf.r = None

----------------------------------------------------------------------------
(* SpecSections: the detailed-expenditure transform on sheets whose rows   *)
(* below row 7 are of any kind in any order. `planted` lists these rows    *)
(* with their kind; the row at place i of the list is row 7 + i of the     *)
(* sheet and carries the amounts 10 i + 1 .. 10 i + 6.                     *)

MaxBodyRows == 4

BodyKinds == {"a1", "b12", "anchor", "empty_text", "spaces", "empty_cell"}
BodyConcept(kind) ==
    CASE kind = "a1" -> Str(<<"a","1",")"," ","S","e","r","v","i","c","i","o","s">>)
      [] kind = "b12" -> Str(<<"b","1","2",")"," ","O","b","r","a">>)
      [] kind = "anchor" ->
            Str(<<"I","I","."," ","G","a","s","t","o"," ","E","t","i","q","u","e","t","a","d","o">>)
      [] kind = "empty_text" -> Str(<<>>)
      [] kind = "spaces" -> Str(<<" ", " ">>)
      [] kind = "empty_cell" -> NaN
BodyCode(kind) ==
    CASE kind = "a1" -> Str(<<"A","1">>)
      [] kind = "b12" -> Str(<<"B","1","2">>)
      [] OTHER -> None
BodyRows(kinds) ==
    [i \in 1..Len(kinds) |->
        [kind |-> kinds[i], code |-> BodyCode(kinds[i]),
         row |-> DetailRow(BodyConcept(kinds[i]), 10 * i)]]
DetailHead ==
    <<BlankRow8, BlankRow8, BlankRow8, BlankRow8, <<NaN, DetailDate>> \o [k \in 1..6 |-> NaN],
      BlankRow8, BlankRow8, BlankRow8>>
\* Sheets that end above the row of the date.
ShortSheets == { [k \in 1..n |-> BlankRow8] : n \in 1..4 }

InitSections ==
    /\ \/ \E n \in 0..MaxBodyRows : \E kinds \in [1..n -> BodyKinds] :
             /\ planted = BodyRows(kinds)
             /\ grid = DetailHead \o [i \in 1..n |-> planted[i].row]
       \/ \E s \in ShortSheets : planted = <<>> /\ grid = s
    /\ truth = [family |-> "egresos"]
    /\ header = None /\ pf = NotRun /\ out = NotRun
    /\ IdleLoad

\* egresos pipeline line 81: transform_egresos_detallado_data(extracted_df, file_path)
TransformSections ==
    /\ out = NotRun
    /\ out' = Ran(transform_egresos_detallado_data(grid))
    /\ UNCHANGED <<header, truth, pf, grid, planted, tbl_exists, tbl_rows, last,
                   issued, runs, source, bucket, runlog, caller>>

NextSections == TransformSections

SpecSections == InitSections /\ [][NextSections]_vars

\* The places of the planted rows of a set of kinds.
PlacesOf(kinds) == {i \in 1..Len(planted) : planted[i].kind \in kinds}
\* The place of the anchor: the first planted header of section II.
AnchorPlace == First(PlacesOf({"anchor"}))
\* The place of the first blank row after the anchor, or the place after the
\* last row of the sheet.
EndPlace(blank_kinds) ==
    IF \E i \in PlacesOf(blank_kinds) : i > AnchorPlace
    THEN First({i \in PlacesOf(blank_kinds) : i > AnchorPlace})
    ELSE Len(planted) + 1
\* The place of the planted row a record of the output was made from.
SourcePlace(r) == CHOOSE i \in 1..Len(planted) : r["Aprobado"] = Num(10 * i + 1)
\* The places of the rows with a code between two places, the first of every
\* code only.
CodedBetween(lo, hi) ==
    {i \in PlacesOf({"a1", "b12"}) :
        /\ lo < i /\ i < hi
        /\ \A j \in PlacesOf({"a1", "b12"}) :
              (lo < j /\ j < i) => planted[j].code # planted[i].code}
\* The places the records of a section of the output were made from.
PlacesTagged(seccion) ==
    {SourcePlace(out.r.rows[k]) : k \in {j \in 1..Len(out.r.rows) : out.r.rows[j]["Seccion"] = seccion}}

(* C24: on a sheet in which no row of column 1 matches the header of       *)
(* section II, transform_egresos_detallado_data fails with an error and    *)
(* returns no record, not even of section I; when several rows match, the  *)
(* first in sheet order is the anchor.                                     *)
C24_AnchorMissingOrFirst ==
    out.done =>
        IF PlacesOf({"anchor"}) = {}
        THEN /\ out.r.raised
             /\ out.r.exc = (IF Len(grid) < 5 THEN "IndexError" ELSE "ValueError")
             /\ "rows" \notin DOMAIN out.r
        ELSE /\ ~out.r.raised
             /\ PlacesTagged("I") = CodedBetween(0, AnchorPlace)
             /\ \A i \in PlacesTagged("II") : i > AnchorPlace

\* A sheet with a coded row, the header of section II, a coded row, the header
\* again and a coded row: one record of section I, and the rows after the
\* first header in section II.
C24_Witness ==
    /\ out.done /\ ~out.r.raised
    /\ Len(planted) >= 4
    /\ planted[1].kind = "a1" /\ planted[2].kind = "anchor"
    /\ planted[3].kind = "b12" /\ planted[4].kind = "anchor"
    /\ PlacesTagged("I") = {1} /\ 3 \in PlacesTagged("II")

\* A sheet with coded rows and no header of section II has raised ValueError.
C24_WitnessMissing ==
    /\ out.done /\ out.r.raised /\ out.r.exc = "ValueError"
    /\ Len(planted) >= 2 /\ planted[1].kind = "a1" /\ PlacesOf({"anchor"}) = {}

(* C25: with the anchor at row a, the records of section I come only from  *)
(* rows 8..a-1 and the records of section II only from rows a+1..e-1,      *)
(* where e is the first row after the anchor whose column 1 is blank (an   *)
(* empty string, white space only, or an empty cell), or the row count of  *)
(* the sheet when there is none; the anchor row and the rows from e on     *)
(* give no record.                                                         *)
C25_SectionBounds ==
    (out.done /\ ~out.r.raised) =>
        /\ \A i \in PlacesTagged("I") : i < AnchorPlace
        /\ \A i \in PlacesTagged("II") :
              AnchorPlace < i /\ i < EndPlace({"empty_text", "spaces", "empty_cell"})

----------------------------------------------------------------------------
(* SpecSheetPeriod: the transform of each family on a sheet of two line    *)
(* items whose period header is written in every way of DatedHeaders that  *)
(* reads "al D de <month> de YYYY". `truth` keeps how it was written.      *)

\* The days the period headers of the sheets are written with.
PeriodDays == {5, 31}
PeriodHeaders ==
    {h \in DatedHeaders : h.truth.form \in {"al_de", "range"} /\ h.truth.D \in PeriodDays}

BalanceItems == <<PeriodRow>>
EgresosItems == CHOOSE b \in [1..2 -> EgresosRowInputs] :
                    b[1].code = Str(<<"A","1">>) /\ b[2].code = Str(<<"B","1","2">>)
IngresosItems == CHOOSE b \in [1..2 -> IngresosRowInputs] :
                    b[1].code = Str(<<"A",".">>) /\ b[2].code = Str(<<"h","1",")">>)

\* The sheet of a family whose period cell is the given one.
PeriodSheet(family, cell) ==
    CASE family = "balance" -> SheetOf([cell |-> cell], BalanceItems)
      [] family = "egresos" ->
            <<BlankRow8, BlankRow8, BlankRow8, BlankRow8, <<NaN, cell>> \o [k \in 1..6 |-> NaN],
              BlankRow8, BlankRow8, BlankRow8>>
            \o <<EgresosItems[1].row, GastoEtiquetadoRow, EgresosItems[2].row>>
      [] family = "ingresos" ->
            <<BlankRow8, BlankRow8, BlankRow8, <<NaN, cell>> \o [k \in 1..6 |-> NaN],
              BlankRow8, BlankRow8, BlankRow8>>
            \o <<IngresosItems[1].row, IngresosItems[2].row>>

InitSheetPeriod ==
    /\ \E family \in {"balance", "egresos", "ingresos"}, h \in PeriodHeaders :
          /\ truth = [family |-> family] @@ h.truth
          /\ header = h.cell
          /\ grid = PeriodSheet(family, h.cell)
    /\ planted = <<>> /\ pf = NotRun /\ out = NotRun
    /\ IdleLoad

\* balance pipeline line 82, egresos pipeline line 81, ingresos bulk pipeline
\* line 68: the transform of the family on the extracted sheet
TransformSheet ==
    /\ out = NotRun
    /\ out' = Ran(CASE truth.family = "balance" -> transform_balance_presupuestario_data(grid)
                    [] truth.family = "egresos" -> transform_egresos_detallado_data(grid)
                    [] truth.family = "ingresos" -> transform_ingresos_detallado_data(grid))
    /\ UNCHANGED <<header, truth, pf, grid, planted, tbl_exists, tbl_rows, last,
                   issued, runs, source, bucket, runlog, caller>>

NextSheetPeriod == TransformSheet

SpecSheetPeriod == InitSheetPeriod /\ [][NextSheetPeriod]_vars

\* The period the header was written with: 'YYYY-MM-DD' and '<year>_Q<1-4>'.
WrittenDate == truth.Y \o <<"-">> \o Pad2(truth.M) \o <<"-">> \o Pad2(truth.D)
WrittenQuarter == truth.Y \o <<"_", "Q">> \o Dec((truth.M - 1) \div 3 + 1)

\* The full date and the quarter label of a record of the output, as texts.
OutDate(r) ==
    CASE truth.family = "balance" -> r["full_date"].s
      [] truth.family = "egresos" -> r["Fecha"]
      [] truth.family = "ingresos" -> r["fecha"]
OutQuarter(r) ==
    CASE truth.family = "balance" -> r["year_quarter"]
      [] truth.family = "egresos" -> r["Cuarto"].s
      [] truth.family = "ingresos" -> r["cuarto"]

(* C26: in every family, every record made from a sheet whose period       *)
(* header reads "al D de <month> de YYYY", with a month of the lexicon,    *)
(* carries the period of the sheet: the full date "YYYY-MM-DD" and a       *)
(* quarter label "<year>_Q<1-4>" (year_quarter, Cuarto, cuarto).           *)
C26_OnePeriodPerSheet ==
    out.done =>
        /\ ~out.r.raised
        /\ out.r.rows # <<>>
        /\ \A k \in 1..Len(out.r.rows) :
              /\ OutDate(out.r.rows[k]) = WrittenDate
              /\ OutQuarter(out.r.rows[k]) = WrittenQuarter

----------------------------------------------------------------------------
(* assets: extract_*_data. The store is the set of the objects of the      *)
(* buckets and of the files of the local data directory; an object is      *)
(* readable as a sheet or not. A call returns or raises, and `reads` lists *)
(* the places it tried to read.                                            *)

\* reverse_quarter_map.get(quarter, quarter)
reverse_quarter_map(quarter) ==
    IF Len(quarter) = 2 /\ quarter[1] = "Q" /\ quarter[2] \in {"1", "2", "3", "4"}
    THEN <<quarter[2], "T">>
    ELSE quarter

\* The head of the file name of a family, and its folder in the bucket.
FilePrefix(family) ==
    CASE family = "balance" -> <<"F","4","_","B","a","l","a","n","c","e","_","P","r","e","s","u","p","u","e","s","t","a","r","i","o","_","L","D","F","_">>
      [] family = "egresos" -> <<"F","6","_","a","_","E","A","P","E","D","_","C","l","a","s","_","O","b","j","_","G","a","s","_","L","D","F","_">>
      [] family = "ingresos" -> <<"F","5","_","E","d","o","_","A","n","a","_","I","n","g","_","D","e","t","_","L","D","F","_">>
S3Folder(family) ==
    CASE family = "balance" -> <<"f","i","n","a","n","z","a","s","/","B","a","l","a","n","c","e","_","P","r","e","s","u","p","u","e","s","t","a","r","i","o","/","r","a","w","/">>
      [] family = "egresos" -> <<"f","i","n","a","n","z","a","s","/","E","g","r","e","s","o","s","_","D","e","t","a","l","l","a","d","o","/","r","a","w","/">>
      [] family = "ingresos" -> <<"f","i","n","a","n","z","a","s","/","I","n","g","r","e","s","o","s","_","D","e","t","a","l","l","a","d","o","/","r","a","w","/">>
\* The data directory of the local source.
data_dir == <<"d","a","t","a","/","p","r","e","s","u","p","u","e","s","t","o","s","/">>

\* file_name = f"<prefix>{file_quarter}{year}.xlsx"
file_name(family, year, quarter) ==
    FilePrefix(family) \o reverse_quarter_map(quarter) \o Dec(year) \o <<".","x","l","s","x">>

InS3(bucket_name, key) == [place |-> "s3", bucket |-> bucket_name, key |-> key]
InDir(path) == [place |-> "local", bucket |-> None, key |-> path]

\* The empty result: an empty frame and no path.
Sentinel(reads) ==
    [raised |-> FALSE, exc |-> "none", df |-> <<>>, file_path |-> None, reads |-> reads]
Extracted(df, file_path, reads) ==
    [raised |-> FALSE, exc |-> "none", df |-> df, file_path |-> file_path, reads |-> reads]
ConfigError == [raised |-> TRUE, exc |-> "ValueError", df |-> <<>>, file_path |-> None, reads |-> <<>>]

\* Mutant: the error of a missing or unreadable object leaves the function.
S3Extract_Raises(store, bucket_name, s3_key) ==
    IF \E o \in store : o.at = InS3(bucket_name, s3_key) /\ o.readable
    THEN Extracted((CHOOSE o \in store : o.at = InS3(bucket_name, s3_key)).sheet,
                   Str(<<"s","3",":","/","/">> \o bucket_name.s \o <<"/">> \o s3_key),
                   <<InS3(bucket_name, s3_key)>>)
    ELSE [raised |-> TRUE, exc |-> "ClientError", df |-> <<>>, file_path |-> None,
          reads |-> <<InS3(bucket_name, s3_key)>>]

\* The try block of the s3 branch: get_object and read_excel, any error caught
S3Extract(store, bucket_name, s3_key) ==
    IF \E o \in store : o.at = InS3(bucket_name, s3_key) /\ o.readable
    THEN Extracted((CHOOSE o \in store : o.at = InS3(bucket_name, s3_key)).sheet,
                   Str(<<"s","3",":","/","/">> \o bucket_name.s \o <<"/">> \o s3_key),
                   <<InS3(bucket_name, s3_key)>>)
    ELSE Sentinel(<<InS3(bucket_name, s3_key)>>)

\* The local branch of the balance family: os.path.exists, then read_excel
LocalExtract(store, file_path) ==
    IF \E o \in store : o.at = InDir(file_path) /\ o.readable
    THEN Extracted((CHOOSE o \in store : o.at = InDir(file_path)).sheet, Str(file_path),
                   <<InDir(file_path)>>)
    ELSE Sentinel(<<InDir(file_path)>>)

\* extract_balance_presupuestario_data(year, quarter, source, bucket_name), on a store
extract_balance_presupuestario_data_at(year, quarter, from_source, bucket_name, store) ==
    IF from_source = "local"
    THEN LocalExtract(store, data_dir \o file_name("balance", year, quarter))
    ELSE IF from_source = "s3"
    THEN IF bucket_name = None THEN ConfigError
         ELSE S3Extract(store, bucket_name,
                        S3Folder("balance") \o file_name("balance", year, quarter))
    ELSE ConfigError

\* extract_egresos_detallado_data(year, quarter, source, bucket_name), on a store
extract_egresos_detallado_data(year, quarter, from_source, bucket_name, store) ==
    IF from_source = "s3"
    THEN IF bucket_name = None THEN ConfigError
         ELSE S3Extract(store, bucket_name,
                        S3Folder("egresos") \o file_name("egresos", year, quarter))
    ELSE ConfigError

\* extract_ingresos_detallado_data(year, quarter, source, bucket_name), on a store
extract_ingresos_detallado_data(year, quarter, from_source, bucket_name, store) ==
    IF from_source = "s3"
    THEN IF bucket_name = None THEN ConfigError
         ELSE S3Extract(store, bucket_name,
                        S3Folder("ingresos") \o file_name("ingresos", year, quarter))
    ELSE ConfigError

----------------------------------------------------------------------------
(* SpecExtract: one call of the extract function of a family. `truth`      *)
(* keeps the call and the state of the file it asks for; `bucket` is the   *)
(* store, which always holds the report of the other quarter as well.      *)

\* The file names of the reports, as they are written in the store.
ReportNames == {
    [family |-> "balance", year |-> 2023, n |-> 1,
     name |-> <<"F","4","_","B","a","l","a","n","c","e","_","P","r","e","s","u","p","u","e","s","t","a","r","i","o","_","L","D","F","_","1","T","2","0","2","3",".","x","l","s","x">>],
    [family |-> "balance", year |-> 2023, n |-> 4,
     name |-> <<"F","4","_","B","a","l","a","n","c","e","_","P","r","e","s","u","p","u","e","s","t","a","r","i","o","_","L","D","F","_","4","T","2","0","2","3",".","x","l","s","x">>],
    [family |-> "balance", year |-> 2024, n |-> 1,
     name |-> <<"F","4","_","B","a","l","a","n","c","e","_","P","r","e","s","u","p","u","e","s","t","a","r","i","o","_","L","D","F","_","1","T","2","0","2","4",".","x","l","s","x">>],
    [family |-> "balance", year |-> 2024, n |-> 4,
     name |-> <<"F","4","_","B","a","l","a","n","c","e","_","P","r","e","s","u","p","u","e","s","t","a","r","i","o","_","L","D","F","_","4","T","2","0","2","4",".","x","l","s","x">>],
    [family |-> "egresos", year |-> 2023, n |-> 1,
     name |-> <<"F","6","_","a","_","E","A","P","E","D","_","C","l","a","s","_","O","b","j","_","G","a","s","_","L","D","F","_","1","T","2","0","2","3",".","x","l","s","x">>],
    [family |-> "egresos", year |-> 2023, n |-> 4,
     name |-> <<"F","6","_","a","_","E","A","P","E","D","_","C","l","a","s","_","O","b","j","_","G","a","s","_","L","D","F","_","4","T","2","0","2","3",".","x","l","s","x">>],
    [family |-> "egresos", year |-> 2024, n |-> 1,
     name |-> <<"F","6","_","a","_","E","A","P","E","D","_","C","l","a","s","_","O","b","j","_","G","a","s","_","L","D","F","_","1","T","2","0","2","4",".","x","l","s","x">>],
    [family |-> "egresos", year |-> 2024, n |-> 4,
     name |-> <<"F","6","_","a","_","E","A","P","E","D","_","C","l","a","s","_","O","b","j","_","G","a","s","_","L","D","F","_","4","T","2","0","2","4",".","x","l","s","x">>],
    [family |-> "ingresos", year |-> 2023, n |-> 1,
     name |-> <<"F","5","_","E","d","o","_","A","n","a","_","I","n","g","_","D","e","t","_","L","D","F","_","1","T","2","0","2","3",".","x","l","s","x">>],
    [family |-> "ingresos", year |-> 2023, n |-> 4,
     name |-> <<"F","5","_","E","d","o","_","A","n","a","_","I","n","g","_","D","e","t","_","L","D","F","_","4","T","2","0","2","3",".","x","l","s","x">>],
    [family |-> "ingresos", year |-> 2024, n |-> 1,
     name |-> <<"F","5","_","E","d","o","_","A","n","a","_","I","n","g","_","D","e","t","_","L","D","F","_","1","T","2","0","2","4",".","x","l","s","x">>],
    [family |-> "ingresos", year |-> 2024, n |-> 4,
     name |-> <<"F","5","_","E","d","o","_","A","n","a","_","I","n","g","_","D","e","t","_","L","D","F","_","4","T","2","0","2","4",".","x","l","s","x">>] }
NameOf(family, year, n) ==
    (CHOOSE r \in ReportNames : r.family = family /\ r.year = year /\ r.n = n).name

CentralBucket == Str(<<"c","e","n","t","r","a","l","f","i","l","e","s","3">>)
OtherBucket == Str(<<"o","t","r","o">>)

\* The sheet of a stored report: one cell that names the report.
ReportSheet(name) == << <<Str(name)>> >>
\* A report in the bucket and in the local directory.
StoredReport(family, name, readable) ==
    { [at |-> InS3(CentralBucket, S3Folder(family) \o name), readable |-> readable,
       sheet |-> ReportSheet(name)],
      [at |-> InDir(data_dir \o name), readable |-> readable, sheet |-> ReportSheet(name)] }

ExtractCalls ==
    [family : {"balance", "egresos", "ingresos"}, year : {2023, 2024}, n : {1, 4},
     source : {"s3", "local", "ftp"}, bucket_name : {None, CentralBucket, OtherBucket},
     file : {"absent", "unreadable", "sheet"}]

InitExtract ==
    /\ truth \in ExtractCalls
    /\ bucket = StoredReport(truth.family, NameOf(truth.family, truth.year, 5 - truth.n), TRUE)
                \cup (IF truth.file = "absent" THEN {}
                      ELSE StoredReport(truth.family, NameOf(truth.family, truth.year, truth.n),
                                        truth.file = "sheet"))
    /\ header = None /\ pf = NotRun
    /\ grid = <<>> /\ planted = <<>> /\ out = NotRun
    /\ tbl_exists = FALSE /\ tbl_rows = EmptyRows /\ last = EmptyLast
    /\ issued = {} /\ runs = <<>> /\ source = NoObject
    /\ runlog = <<>> /\ caller = NotRun

\* extract_*_data(year, f"Q{n}", source, bucket_name) of the family
Extract ==
    /\ out = NotRun
    /\ LET quarter == <<"Q">> \o Dec(truth.n) IN
       out' = Ran(CASE truth.family = "balance" ->
                         extract_balance_presupuestario_data_at(
                             truth.year, quarter, truth.source, truth.bucket_name, bucket)
                    [] truth.family = "egresos" ->
                         extract_egresos_detallado_data(
                             truth.year, quarter, truth.source, truth.bucket_name, bucket)
                    [] truth.family = "ingresos" ->
                         extract_ingresos_detallado_data(
                             truth.year, quarter, truth.source, truth.bucket_name, bucket))
    /\ UNCHANGED <<header, truth, pf, grid, planted, tbl_exists, tbl_rows, last,
                   issued, runs, source, bucket, runlog, caller>>

NextExtract == Extract

SpecExtract == InitExtract /\ [][NextExtract]_vars

\* The sources a family's extract function reads from.
Supported(family) == IF family = "balance" THEN {"local", "s3"} ELSE {"s3"}
\* The place the call is to read: the report of its year and quarter.
AskedPlace ==
    IF truth.source = "s3"
    THEN InS3(truth.bucket_name,
              S3Folder(truth.family) \o NameOf(truth.family, truth.year, truth.n))
    ELSE InDir(data_dir \o NameOf(truth.family, truth.year, truth.n))

(* C27: each extract function returns the empty result (empty frame, null  *)
(* path) without raising when the file it resolves is missing or cannot be *)
(* read; it raises a configuration error, without attempting a read, when  *)
(* the source is 's3' with no bucket name or a source it does not support; *)
(* the file it resolves for (year, 'Qn') is '<prefix>_<n>T<year>.xlsx'.    *)
C27_ExtractSentinelOrConfigError ==
    out.done =>
        IF truth.source \notin Supported(truth.family)
           \/ (truth.source = "s3" /\ truth.bucket_name = None)
        THEN out.r.raised /\ out.r.exc = "ValueError" /\ out.r.reads = <<>>
        ELSE /\ ~out.r.raised
             /\ out.r.reads = <<AskedPlace>>
             /\ IF truth.file = "sheet" /\ (truth.source = "local" \/ truth.bucket_name = CentralBucket)
                THEN /\ out.r.df = ReportSheet(NameOf(truth.family, truth.year, truth.n))
                     /\ out.r.file_path # None
                ELSE out.r.df = <<>> /\ out.r.file_path = None

\* The income report of the fourth quarter of 2024 is in the bucket and cannot
\* be read: the call has tried it and returned the empty result.
C27_Witness ==
    /\ out.done /\ truth.family = "ingresos" /\ truth.source = "s3"
    /\ truth.bucket_name = CentralBucket /\ truth.file = "unreadable"
    /\ truth.year = 2024 /\ truth.n = 4
    /\ Len(out.r.reads) = 1 /\ out.r.df = <<>> /\ out.r.file_path = None

----------------------------------------------------------------------------
(* SpecRuns: runs of the run wrappers side by side, statement by           *)
(* statement, on one pipeline_logs table. `runs` maps every run to the     *)
(* wrapper called, its pipeline name, the place it has reached, the run_id *)
(* of its MetaDataLogging and what pipeline() did; `runlog` is the table,  *)
(* every row with the run that wrote it; `last` keeps the table as it was  *)
(* before the last statement; `caller` is what the caller of every run     *)
(* saw. A statement on the table succeeds, or fails as on a lost           *)
(* connection.                                                             *)

RunProcs == {"r1", "r2"}
Wrappers == {"run_balance_pipeline", "run_egresos_pipeline", "run_pipeline",
             "bulk.run_balance_pipeline", "run_ingresos_pipeline"}
\* The wrappers whose except block ends in raise.
Reraises(wrapper) == wrapper \in {"run_balance_pipeline", "run_egresos_pipeline"}
\* What pipeline() of a wrapper can do: the income pipeline of one period
\* raises on every run (see ingresos_pipeline).
PipelineOutcomes(wrapper) ==
    IF wrapper = "run_pipeline" THEN {"raised"} ELSE {"returned", "raised"}

LogRow(name, run_id, status, by) ==
    [pipeline_name |-> name, run_id |-> run_id, status |-> status, by |-> by]

\* SELECT MAX(run_id) FROM pipeline_logs WHERE pipeline_name = :pipeline_name,
\* or 0, plus 1
next_run_id(table, name) ==
    LET ids == {table[i].run_id : i \in {j \in 1..Len(table) : table[j].pipeline_name = name}}
    IN  (IF ids = {} THEN 0 ELSE CHOOSE m \in ids : \A n \in ids : n <= m) + 1

\* The table before the runs: empty, or with the rows of an earlier run.
PriorTables ==
    {<<>>,
     <<LogRow("balance", 1, "start", "r0"), LogRow("balance", 1, "success", "r0")>>}

NewRun(wrapper, name) ==
    [wrapper |-> wrapper, name |-> name, pc |-> "new", run_id |-> 0, seen |-> 0,
     pipeline |-> "none"]

InitRuns ==
    /\ \E w \in [RunProcs -> Wrappers], second \in {"balance", "egresos"} :
          runs = [p \in RunProcs |-> NewRun(w[p], IF p = "r1" THEN "balance" ELSE second)]
    /\ runlog \in PriorTables
    /\ last = [path |-> "log", before |-> runlog]
    /\ caller = [p \in RunProcs |-> NotRun]
    /\ header = None /\ truth = None /\ pf = NotRun
    /\ grid = <<>> /\ planted = <<>> /\ out = NotRun
    /\ tbl_exists = FALSE /\ tbl_rows = EmptyRows
    /\ issued = {} /\ source = NoObject /\ bucket = <<>>

\* A step of run p: its place and fields change, the table gets the rows.
RunStep(p, fields, table, seen_by_caller) ==
    /\ runs' = [runs EXCEPT ![p] = fields]
    /\ last' = [path |-> "log", before |-> runlog]
    /\ runlog' = table
    /\ caller' = [caller EXCEPT ![p] = seen_by_caller]
    /\ UNCHANGED <<header, truth, pf, grid, planted, out, tbl_exists, tbl_rows,
                   issued, source, bucket>>

RuntimeError == Ran([raised |-> TRUE, exc |-> "RuntimeError"])

\* MetaDataLogging.__init__: _get_run_id, outside the try block of the wrapper
Construct(p) ==
    /\ runs[p].pc = "new"
    /\ \/ RunStep(p, [runs[p] EXCEPT !.pc = "start",
                                     !.run_id = next_run_id(runlog, runs[p].name),
                                     !.seen = next_run_id(runlog, runs[p].name) - 1],
                  runlog, caller[p])
       \/ RunStep(p, [runs[p] EXCEPT !.pc = "done"], runlog, RuntimeError)

\* The table after log(status) of run p has written its row.
Written(p, status) == Append(runlog, LogRow(runs[p].name, runs[p].run_id, status, p))

\* metadata_logger.log(): the 'start' row, first statement of the try block
LogStart(p) ==
    /\ runs[p].pc = "start"
    /\ \/ RunStep(p, [runs[p] EXCEPT !.pc = "pipeline"], Written(p, "start"), caller[p])
       \/ RunStep(p, [runs[p] EXCEPT !.pc = "except"], runlog, caller[p])

\* pipeline(pipeline_logging=pipeline_logging)
RunPipeline(p) ==
    /\ runs[p].pc = "pipeline"
    /\ \E outcome \in PipelineOutcomes(runs[p].wrapper) :
          RunStep(p, [runs[p] EXCEPT !.pipeline = outcome,
                                     !.pc = IF outcome = "returned" THEN "success" ELSE "except"],
                  runlog, caller[p])

\* metadata_logger.log(status=RUN_SUCCESS, ...), last statement of the try block
LogSuccess(p) ==
    /\ runs[p].pc = "success"
    /\ \/ RunStep(p, [runs[p] EXCEPT !.pc = "done"], Written(p, "success"),
                  Ran([raised |-> FALSE, exc |-> "none"]))
       \/ RunStep(p, [runs[p] EXCEPT !.pc = "except"], runlog, caller[p])

\* The except block: metadata_logger.log(status=RUN_FAILURE, ...), then raise
\* in the wrappers that have it
LogFailure(p) ==
    /\ runs[p].pc = "except"
    /\ \/ RunStep(p, [runs[p] EXCEPT !.pc = "done"], Written(p, "fail"),
                  IF Reraises(runs[p].wrapper)
                  THEN Ran([raised |-> TRUE,
                            exc |-> IF runs[p].pipeline = "raised" THEN "pipeline"
                                    ELSE "RuntimeError"])
                  ELSE Ran([raised |-> FALSE, exc |-> "none"]))
       \/ RunStep(p, [runs[p] EXCEPT !.pc = "done"], runlog, RuntimeError)

NextRuns ==
    \E p \in RunProcs :
        Construct(p) \/ LogStart(p) \/ RunPipeline(p) \/ LogSuccess(p) \/ LogFailure(p)

SpecRuns == InitRuns /\ [][NextRuns]_vars

\* The places of the rows run p wrote, and those of a status.
RowsBy(p) == {i \in 1..Len(runlog) : runlog[i].by = p}
RowsOfStatus(p, statuses) == {i \in RowsBy(p) : runlog[i].status \in statuses}

(* C28: every run wrapper writes a 'start' row before pipeline() begins    *)
(* and, after it, exactly one terminal row with the same run_id: 'success' *)
(* if and only if pipeline() returned normally, 'fail' if and only if it   *)
(* raised; no run has both, and the table only grows at its end. Stated of *)
(* the runs whose pipeline() began.                                        *)
C28_StartThenOneTerminal ==
    /\ \A p \in RunProcs :
          /\ runs[p].pipeline # "none" =>
                \E i \in RowsOfStatus(p, {"start"}) : \A j \in RowsBy(p) : i <= j
          /\ (runs[p].pc = "done" /\ runs[p].pipeline # "none") =>
                /\ Cardinality(RowsOfStatus(p, {"start"})) = 1
                /\ Cardinality(RowsOfStatus(p, {"success", "fail"})) = 1
                /\ \A i \in RowsBy(p) : runlog[i].run_id = runs[p].run_id
                /\ RowsOfStatus(p, {"success"}) # {} <=> runs[p].pipeline = "returned"
                /\ RowsOfStatus(p, {"fail"}) # {} <=> runs[p].pipeline = "raised"
          /\ RowsOfStatus(p, {"success"}) = {} \/ RowsOfStatus(p, {"fail"}) = {}
    /\ Len(last.before) <= Len(runlog)
    /\ SubSeq(runlog, 1, Len(last.before)) = last.before

(* C29: run ids are unique per pipeline name: the run_id of a              *)
(* MetaDataLogging is 1 + the largest run_id logged for its pipeline name  *)
(* (1 when there is none), and no two runs of one pipeline name write rows *)
(* under the same run_id, runs started side by side included.              *)
C29_RunIdsUnique ==
    /\ \A p \in RunProcs : runs[p].pc \notin {"new"} /\ runs[p].run_id # 0 =>
          runs[p].run_id = runs[p].seen + 1
    /\ \A i, j \in 1..Len(runlog) :
          (runlog[i].pipeline_name = runlog[j].pipeline_name
           /\ runlog[i].run_id = runlog[j].run_id) => runlog[i].by = runlog[j].by

----------------------------------------------------------------------------
(* SpecLatest: find_latest_presupuesto_file, find_latest_egresos_file and  *)
(* find_latest_ingresos_file on a listing of object keys. `header` is the  *)
(* listing in the order the paginator gives it, `truth` the family and the *)
(* parts every key was built from, `pf` the pair returned.                 *)

MaxListing == 3

\* obj["Key"].split("/")[-1]
RECURSIVE LastSegment(_)
LastSegment(key) ==
    IF key = <<>> \/ key[Len(key)] = "/" THEN <<>>
    ELSE LastSegment(SubSeq(key, 1, Len(key) - 1)) \o <<key[Len(key)]>>

\* re.match(r"<head>([1-4]T)(\d{4})\.xlsx", fname): the two groups, or None.
\* The pattern is tied to the start of fname only.
match_report(head, fname) ==
    LET at == Len(head) + 1
    IN  IF /\ HasAt(fname, 1, head)
           /\ Len(fname) >= at + 1
           /\ fname[at] \in {"1", "2", "3", "4"}
           /\ fname[at + 1] = "T"
           /\ AllDigits(fname, at + 2, 4)
           /\ HasAt(fname, at + 6, <<".","x","l","s","x">>)
        THEN [quarter_str |-> SubSeq(fname, at, at + 1), year |-> SubSeq(fname, at + 2, at + 5)]
        ELSE None

\* quarter_map = {"1T": "Q1", "2T": "Q2", "3T": "Q3", "4T": "Q4"}
quarter_map(quarter_str) == <<"Q", quarter_str[1]>>

NoLatest == [latest_year |-> -1, latest_quarter |-> -1, latest_q |-> None, latest_y |-> None]

\* One turn of the loop over the listed objects.
LatestStep(head, acc, key) ==
    LET m == match_report(head, LastSegment(key))
    IN  IF m = None THEN acc
        ELSE IF \/ ToInt(m.year) > acc.latest_year
                \/ (ToInt(m.year) = acc.latest_year
                    /\ DigitVal(m.quarter_str[1]) > acc.latest_quarter)
             THEN [latest_year |-> ToInt(m.year), latest_quarter |-> DigitVal(m.quarter_str[1]),
                   latest_q |-> Str(quarter_map(m.quarter_str)), latest_y |-> Num(ToInt(m.year))]
             ELSE acc

RECURSIVE LatestOver(_, _)
LatestOver(head, keys) ==
    IF keys = <<>> THEN NoLatest
    ELSE LatestStep(head, LatestOver(head, SubSeq(keys, 1, Len(keys) - 1)), keys[Len(keys)])

\* bool(v) of None, a text or an int
Truthy(v) ==
    CASE v = None -> FALSE
      [] v.kind = "str" -> v.s # <<>>
      [] v.kind = "num" -> v.n # 0

\* return (latest_y, latest_q) if latest_y and latest_q else (None, None)
LatestPair(acc) ==
    IF Truthy(acc.latest_y) /\ Truthy(acc.latest_q)
    THEN [year |-> acc.latest_y, quarter |-> acc.latest_q]
    ELSE [year |-> None, quarter |-> None]

find_latest_presupuesto_file(keys) == LatestPair(LatestOver(FilePrefix("balance"), keys))
find_latest_egresos_file(keys) == LatestPair(LatestOver(FilePrefix("egresos"), keys))
find_latest_ingresos_file(keys) == LatestPair(LatestOver(FilePrefix("ingresos"), keys))

\* The parts of the listed keys: the family of the head, the quarter digit,
\* the year digits and the text from the extension on.
KeyParts == {
    [own |-> TRUE,  n |-> "1", year |-> <<"2","0","2","3">>, tail |-> <<".","x","l","s","x">>],
    [own |-> TRUE,  n |-> "4", year |-> <<"2","0","2","3">>, tail |-> <<".","x","l","s","x">>],
    [own |-> TRUE,  n |-> "2", year |-> <<"2","0","2","4">>, tail |-> <<".","x","l","s","x">>],
    [own |-> TRUE,  n |-> "3", year |-> <<"0","0","0","0">>, tail |-> <<".","x","l","s","x">>],
    [own |-> TRUE,  n |-> "3", year |-> <<"2","0","2","4">>, tail |-> <<".","x","l","s","x",".","b","a","k">>],
    [own |-> FALSE, n |-> "4", year |-> <<"2","0","2","5">>, tail |-> <<".","x","l","s","x">>],
    [own |-> TRUE,  n |-> "5", year |-> <<"2","0","2","5">>, tail |-> <<".","x","l","s","x">>],
    [own |-> TRUE,  n |-> "4", year |-> <<"2","0","2">>,     tail |-> <<".","x","l","s","x">>],
    [own |-> TRUE,  n |-> "4", year |-> <<"2","0","2","5">>, tail |-> <<".","c","s","v">>]}

OtherFamily(family) ==
    CASE family = "balance" -> "egresos" [] family = "egresos" -> "ingresos"
      [] family = "ingresos" -> "balance"

KeyText(family, p) ==
    S3Folder(family) \o FilePrefix(IF p.own THEN family ELSE OtherFamily(family))
    \o <<p.n, "T">> \o p.year \o p.tail

Listings == UNION {[1..k -> KeyParts] : k \in 0..MaxListing}

InitLatest ==
    /\ \E family \in Families, parts \in Listings :
          /\ truth = [family |-> family, parts |-> parts]
          /\ header = [i \in 1..Len(parts) |-> KeyText(family, parts[i])]
    /\ pf = NotRun
    /\ IdleRest
    /\ bucket = <<>> /\ runlog = <<>> /\ caller = NotRun

FindLatest ==
    /\ pf = NotRun
    /\ pf' = Ran(CASE truth.family = "balance" -> find_latest_presupuesto_file(header)
                   [] truth.family = "egresos" -> find_latest_egresos_file(header)
                   [] truth.family = "ingresos" -> find_latest_ingresos_file(header))
    /\ UNCHANGED <<header, truth, grid, planted, out, tbl_exists, tbl_rows, last,
                   issued, runs, source, bucket, runlog, caller>>

NextLatest == FindLatest

SpecLatest == InitLatest /\ [][NextLatest]_vars

\* The listed keys whose file name is <head><n>T<YYYY>.xlsx, n in 1..4,
\* text after the extension allowed as the pattern allows it.
Matching(parts) ==
    {i \in 1..Len(parts) : /\ parts[i].own
                           /\ parts[i].n \in {"1", "2", "3", "4"}
                           /\ Len(parts[i].year) = 4
                           /\ HasAt(parts[i].tail, 1, <<".","x","l","s","x">>)}
Later(p, q) ==
    \/ ToInt(p.year) > ToInt(q.year)
    \/ (ToInt(p.year) = ToInt(q.year) /\ DigitVal(p.n) >= DigitVal(q.n))

(* C30: the find_latest functions return the (year, 'Qn') pair that is     *)
(* largest in (year, quarter number) order among the listed keys whose     *)
(* file name matches the template of the family, whatever the order of the *)
(* listing and the other keys, and (None, None) exactly when no listed     *)
(* file name matches.                                                      *)
C30_LatestOfMatching ==
    pf.done =>
        LET hits == Matching(truth.parts)
        IN  IF hits = {}
            THEN pf.r = [year |-> None, quarter |-> None]
            ELSE \E i \in hits :
                    /\ \A j \in hits : Later(truth.parts[i], truth.parts[j])
                    /\ pf.r = [year |-> Num(ToInt(truth.parts[i].year)),
                               quarter |-> Str(<<"Q", truth.parts[i].n>>)]

=============================================================================
